---- MODULE Spec2Model ----
(***************************************************************************)
(* Model of the TFT overlay extension: the heuristic frame detector        *)
(* (SimpleCvProcessor), the frame-processing path of TftExtension and the  *)
(* two static-data managers (AugmentsDataManager, TraitsDataManager).      *)
(***************************************************************************)
EXTENDS Integers, Sequences, FiniteSets, TLC

(***************************************************************************)
(* Frames.  A frame is described by its dimensions and a pixel pattern;    *)
(* the RGBA buffer that getImageData returns is the function               *)
(* (x, y) |-> PixelRGB(frame, x, y).                                       *)
(***************************************************************************)

\* RGB colours that the pixel patterns are painted with.
Black == <<0, 0, 0>>
White == <<255, 255, 255>>
Gold  == <<255, 215, 0>>
Cream == <<255, 250, 205>>
Grey  == <<128, 128, 128>>

\* Pixel patterns: kind "v" varies with x, "h" with y, "c" with x + y;
\* a pixel is painted c1 on every period-th line and c2 elsewhere.
Pattern(kind, c1, c2, period) ==
  [kind |-> kind, c1 |-> c1, c2 |-> c2, period |-> period]

Patterns ==
  { Pattern("v", Black, Black, 1),
    Pattern("v", White, White, 1),
    Pattern("v", Gold,  Gold,  1),
    Pattern("c", Black, White, 2),
    Pattern("v", Gold,  White, 2),
    Pattern("v", Black, Grey,  5),
    Pattern("h", Black, White, 6),
    Pattern("v", Grey,  Cream, 3) }

\* The patterns painted on the frames large enough for an augment window.
LargePatterns ==
  { Pattern("v", Black, Black, 1),
    Pattern("c", Black, White, 2),
    Pattern("v", Gold,  White, 2),
    Pattern("h", Black, White, 6) }

\* Frame dimensions (videoWidth x videoHeight) offered by the video element.
SmallDims ==
  { <<1, 1>>, <<2, 1>>, <<1, 2>>, <<2, 2>>, <<3, 3>>, <<6, 6>>, <<8, 8>>,
    <<9, 20>>, <<20, 9>>, <<45, 14>>, <<41, 40>>, <<70, 110>>, <<90, 210>> }

LargeDims == { <<202, 403>> }

FrameOf(d, p) == [w |-> d[1], h |-> d[2], pat |-> p]

Frames ==
  { FrameOf(d, p) : d \in SmallDims, p \in Patterns }
    \cup { FrameOf(d, p) : d \in LargeDims, p \in LargePatterns }

PixelRGB(fr, x, y) ==
  LET p == fr.pat
      k == CASE p.kind = "v" -> x
             [] p.kind = "h" -> y
             [] OTHER        -> x + y
  IN  IF k % p.period = 0 THEN p.c1 ELSE p.c2

\* Math.round(n * num / den) with exact arithmetic (ties towards +infinity).
MathRound(n, num, den) == (2 * num * n + den) \div (2 * den)

\* Dimensions n for which the IEEE-754 product n * 0.7 falls just below the
\* tie n * 7 / 10 = k + 1/2, so that Math.round(n * 0.7) is k, not k + 1.
Times07BelowTie == { 45, 85, 165, 175, 325, 335, 345, 355, 365 }

RoundTimes07(n) ==
  IF n \in Times07BelowTie THEN MathRound(n, 7, 10) - 1 ELSE MathRound(n, 7, 10)

\* convertToGrayscale: luminance of one RGBA sample, rounded, stored in a
\* Uint8Array.
GrayOf(rgb) == ((299 * rgb[1] + 587 * rgb[2] + 114 * rgb[3] + 500) \div 1000) % 256

\* grayData[idx] of the converted frame; a read outside the buffer yields
\* undefined, written Undefined.
Undefined == -1

GrayAt(fr, idx) ==
  IF idx >= 0 /\ idx < fr.w * fr.h
    THEN GrayOf(PixelRGB(fr, idx % fr.w, idx \div fr.w))
    ELSE Undefined

AbsDiffExceeds(a, b, delta) ==
  /\ a # Undefined
  /\ b # Undefined
  /\ (IF a >= b THEN a - b ELSE b - a) > delta

(***************************************************************************)
(* SimpleCvProcessor: the region heuristics.  A confidence is kept as the  *)
(* exact ratio num / den; comparing it with a threshold p / q is the       *)
(* integer comparison num * q > p * den.                                   *)
(***************************************************************************)

Ratio(n, d) == [num |-> n, den |-> d]

RatioGreater(c, p, q) == c.num * q > p * c.den

\* The pixels (rx, ry) that the nested loops of analyzeRegion visit.
AnalyzeCols(fr, x, w) == { rx \in x..(x + w - 1) : rx < fr.w - 1 }

AnalyzeLines(fr, y, h) == { ry \in y..(y + h - 1) : ry < fr.h - 1 }

\* The edge test of analyzeRegion on pixel (rx, ry): right and bottom
\* neighbour differ from it by more than 30.
IsEdgePixel(fr, rx, ry) ==
  LET currentPixel == GrayAt(fr, ry * fr.w + rx)
      rightPixel   == GrayAt(fr, ry * fr.w + rx + 1)
      bottomPixel  == GrayAt(fr, (ry + 1) * fr.w + rx)
  IN  \/ AbsDiffExceeds(currentPixel, rightPixel, 30)
      \/ AbsDiffExceeds(currentPixel, bottomPixel, 30)

\* analyzeRegion without the cap of Math.min.
analyzeRegionUncapped(fr, x, y, w, h) ==
  LET cols == AnalyzeCols(fr, x, w)
      rows == AnalyzeLines(fr, y, h)
      edgeCount   == Cardinality({ p \in cols \X rows : IsEdgePixel(fr, p[1], p[2]) })
      totalPixels == Cardinality(cols) * Cardinality(rows)
  IN  IF totalPixels = 0 THEN Ratio(0, 1)
      ELSE Ratio(2 * edgeCount, totalPixels)

\* analyzeRegion: confidence = min(edgeRatio * 2, 1.0), edgeRatio = 0 when
\* no pixel was visited.
analyzeRegion(fr, x, y, w, h) ==
  LET cols == AnalyzeCols(fr, x, w)
      rows == AnalyzeLines(fr, y, h)
      edgeCount   == Cardinality({ p \in cols \X rows : IsEdgePixel(fr, p[1], p[2]) })
      totalPixels == Cardinality(cols) * Cardinality(rows)
  IN  IF totalPixels = 0 THEN Ratio(0, 1)
      ELSE IF 2 * edgeCount >= totalPixels THEN Ratio(1, 1)
      ELSE Ratio(2 * edgeCount, totalPixels)

\* findRectangularRegions: the window slides in steps of 10 over the search
\* area; params = [minWidth, minHeight, thrNum, thrDen].
RECURSIVE FindRectRow(_, _, _, _, _)
FindRectRow(fr, sa, params, y, x) ==
  IF ~(x < sa.x + sa.width - params.minWidth) THEN <<>>
  ELSE LET confidence == analyzeRegion(fr, x, y, params.minWidth, params.minHeight)
           found == RatioGreater(confidence, params.thrNum, params.thrDen)
       IN  (IF found
              THEN << [x |-> x, y |-> y,
                       width |-> params.minWidth, height |-> params.minHeight,
                       confidence |-> confidence] >>
              ELSE <<>>)
             \o FindRectRow(fr, sa, params, y, x + 10)

\* A scan whose window slides down to the last line of the search area.
RECURSIVE FindRectRowsToEnd(_, _, _, _)
FindRectRowsToEnd(fr, sa, params, y) ==
  IF ~(y < sa.y + sa.height) THEN <<>>
  ELSE FindRectRow(fr, sa, params, y, sa.x)
         \o FindRectRowsToEnd(fr, sa, params, y + 10)

RECURSIVE FindRectRows(_, _, _, _)
FindRectRows(fr, sa, params, y) ==
  IF ~(y < sa.y + sa.height - params.minHeight) THEN <<>>
  ELSE FindRectRow(fr, sa, params, y, sa.x)
         \o FindRectRows(fr, sa, params, y + 10)

findRectangularRegions(fr, sa, params) == FindRectRows(fr, sa, params, sa.y)

\* analyzeShopPattern: horizontal edges sampled every 5 pixels.
ShopCols(fr, area) ==
  { x \in area.x..(area.x + area.width - 1) : x < fr.w - 1 /\ (x - area.x) % 5 = 0 }

ShopLines(fr, area) ==
  { y \in area.y..(area.y + area.height - 1) : y < fr.h - 1 /\ (y - area.y) % 5 = 0 }

IsShopEdge(fr, x, y) ==
  LET currentPixel == GrayAt(fr, y * fr.w + x)
      rightPixel   == GrayAt(fr, y * fr.w + x + 1)
  IN  AbsDiffExceeds(currentPixel, rightPixel, 25)

\* analyzeShopPattern dividing by totalChecks whatever it is.
analyzeShopPatternUnguarded(fr, area) ==
  LET cols == ShopCols(fr, area)
      rows == ShopLines(fr, area)
      horizontalEdges == Cardinality({ p \in cols \X rows : IsShopEdge(fr, p[1], p[2]) })
      totalChecks     == Cardinality(cols) * Cardinality(rows)
  IN  IF totalChecks > 0 /\ 3 * horizontalEdges >= 2 * totalChecks THEN Ratio(1, 1)
      ELSE Ratio(3 * horizontalEdges, 2 * totalChecks)

\* min((horizontalEdges / totalChecks) * 1.5, 1.0), or 0 without checks.
analyzeShopPattern(fr, area) ==
  LET cols == ShopCols(fr, area)
      rows == ShopLines(fr, area)
      horizontalEdges == Cardinality({ p \in cols \X rows : IsShopEdge(fr, p[1], p[2]) })
      totalChecks     == Cardinality(cols) * Cardinality(rows)
  IN  IF totalChecks = 0 THEN Ratio(0, 1)
      ELSE IF 3 * horizontalEdges >= 2 * totalChecks THEN Ratio(1, 1)
      ELSE Ratio(3 * horizontalEdges, 2 * totalChecks)

\* findBrightRegions: mean luminance of 20 x 20 blocks, in steps of 10.
RECURSIVE BrightRow(_, _, _, _)
BrightRow(fr, ry, rx, xEnd) ==
  IF ~(rx < xEnd /\ rx < fr.w) THEN 0
  ELSE GrayAt(fr, ry * fr.w + rx) + BrightRow(fr, ry, rx + 1, xEnd)

RECURSIVE BrightRows(_, _, _, _, _)
BrightRows(fr, ry, yEnd, x, xEnd) ==
  IF ~(ry < yEnd /\ ry < fr.h) THEN 0
  ELSE BrightRow(fr, ry, x, xEnd) + BrightRows(fr, ry + 1, yEnd, x, xEnd)

BrightPixels(fr, x, y) ==
  Cardinality({ rx \in x..(x + 19) : rx < fr.w })
    * Cardinality({ ry \in y..(y + 19) : ry < fr.h })

RECURSIVE FindBrightRow(_, _, _, _)
FindBrightRow(fr, area, y, x) ==
  IF ~(x < area.x + area.width - 20) THEN <<>>
  ELSE LET brightness == BrightRows(fr, y, y + 20, x, x + 20)
           pixels     == BrightPixels(fr, x, y)
           \* avgBrightness > 200 with avgBrightness = brightness / pixels
           bright == pixels > 0 /\ brightness > 200 * pixels
       IN  (IF bright
              THEN << [x |-> x, y |-> y, width |-> 20, height |-> 20,
                       confidence |-> IF brightness >= 255 * pixels
                                        THEN Ratio(1, 1)
                                        ELSE Ratio(brightness, 255 * pixels)] >>
              ELSE <<>>)
             \o FindBrightRow(fr, area, y, x + 10)

RECURSIVE FindBrightRows(_, _, _)
FindBrightRows(fr, area, y) ==
  IF ~(y < area.y + area.height - 20) THEN <<>>
  ELSE FindBrightRow(fr, area, y, area.x) \o FindBrightRows(fr, area, y + 10)

findBrightRegions(fr, area) == FindBrightRows(fr, area, area.y)

Tagged(type, regions) ==
  [i \in 1..Len(regions) |->
     [type |-> type, x |-> regions[i].x, y |-> regions[i].y,
      width |-> regions[i].width, height |-> regions[i].height,
      confidence |-> regions[i].confidence]]

\* The search area and the parameters of detectAugmentSlots.
AugmentArea(fr) ==
  [x |-> MathRound(fr.w, 3, 10), y |-> MathRound(fr.h, 1, 10),
   width |-> MathRound(fr.w, 4, 10), height |-> MathRound(fr.h, 2, 10)]

AugmentParams == [minWidth |-> 80, minHeight |-> 80, thrNum |-> 7, thrDen |-> 10]

detectAugmentSlots(fr) ==
  Tagged("augment", findRectangularRegions(fr, AugmentArea(fr), AugmentParams))

\* The search area and the parameters of detectChampionSlots.
ChampionArea(fr) ==
  [x |-> MathRound(fr.w, 2, 10), y |-> RoundTimes07(fr.h),
   width |-> MathRound(fr.w, 6, 10), height |-> MathRound(fr.h, 25, 100)]

ChampionParams == [minWidth |-> 50, minHeight |-> 50, thrNum |-> 6, thrDen |-> 10]

detectChampionSlots(fr) ==
  Tagged("champion", findRectangularRegions(fr, ChampionArea(fr), ChampionParams))

\* The area detectShopArea looks at.
ShopArea(fr) ==
  [x |-> MathRound(fr.w, 15, 100), y |-> MathRound(fr.h, 75, 100),
   width |-> RoundTimes07(fr.w), height |-> MathRound(fr.h, 2, 10)]

detectShopArea(fr) ==
  LET shopArea == ShopArea(fr)
      confidence == analyzeShopPattern(fr, shopArea)
  IN  IF RatioGreater(confidence, 1, 2)
        THEN << [type |-> "shop", x |-> shopArea.x, y |-> shopArea.y,
                 width |-> shopArea.width, height |-> shopArea.height,
                 confidence |-> confidence] >>
        ELSE <<>>

\* The two search areas of detectGoldIndicator.
GoldAreas(fr) ==
  << [x |-> 0, y |-> 0,
      width |-> MathRound(fr.w, 3, 10), height |-> MathRound(fr.h, 2, 10)],
     [x |-> 0, y |-> MathRound(fr.h, 8, 10),
      width |-> MathRound(fr.w, 3, 10), height |-> MathRound(fr.h, 2, 10)] >>

detectGoldIndicator(fr) ==
  Tagged("gold", findBrightRegions(fr, GoldAreas(fr)[1]))
    \o Tagged("gold", findBrightRegions(fr, GoldAreas(fr)[2]))

\* The element list built inside the try block of detectTftElements.
DetectAll(fr) ==
  detectAugmentSlots(fr) \o detectChampionSlots(fr)
    \o detectShopArea(fr) \o detectGoldIndicator(fr)

(***************************************************************************)
(* Bounds of the model.                                                    *)
(***************************************************************************)
MaxCalls == 2          \* processVideoFrame invocations in one behaviour
MaxTime == 1           \* readings of performance.now()
MaxTimers == 2         \* pending timeouts of each kind

\* setTimeout(..., 3000) of showTestOverlay and updateOverlayWithElements, in
\* seconds.
HideDelay == 3

VARIABLES
  video,               \* the picture of the <video> element: frame, tainted
  now,                 \* performance.now()
  isProcessing,        \* SimpleCvProcessor.isProcessing
  lastProcessTime,     \* SimpleCvProcessor.lastProcessTime
  processingQueue,     \* SimpleCvProcessor.processingQueue
  detectionCache,      \* SimpleCvProcessor.detectionCache
  calls,               \* the processVideoFrame invocations and where each stands
  detectedElements,    \* TftExtension.detectedElements
  overlayContainer,    \* OverlayManager.overlayContainer (its style and content)
  isVisible,           \* OverlayManager.isVisible
  hideTimers,          \* pending 3000 ms auto-hide timeouts: the seconds each has left
  fadeTimers,          \* pending FADE_DURATION display:none timeouts
  detFrame,            \* the frame handed to detectTftElements
  detElements,         \* the element list it returned
  detStage,            \* "off", "input", "detected" or "scanned"
  augFile,             \* assets/augments/tft-set14-augments.json (its list)
  traitFile,           \* assets/traits/tft-set14-traits.json (its list)
  activationFile,      \* assets/traits/traits-activation-levels.json
  augMgr,              \* the AugmentsDataManager object and its load in flight
  traitMgr,            \* the TraitsDataManager object and its load in flight
  loads,               \* the loadData() calls and what each resolved to
  answer,              \* the last query method call and what it returned
  detProbe,            \* a search area and parameters for findRectangularRegions
  detRegions,          \* the candidates it returned for them
  isActive,            \* TftExtension.isActive
  isMonitoring,        \* VideoDetector.isMonitoring
  currentVideo,        \* VideoDetector.currentVideo (0: null)
  streamIsTft,         \* whether the stream title has a TFT keyword
  lastTftStatus,       \* VideoDetector.lastTftStatus
  cvProcessingInterval, \* TftExtension.cvProcessingInterval (0: null)
  intervals,           \* the running setInterval timers of startCvProcessing
  timersCreated,       \* how many of them setInterval has created
  message,             \* the last request of the popup and the sendResponse calls
  retryCount,          \* VideoDetector.retryCount
  monitoringInterval,  \* VideoDetector.monitoringInterval (0: null)
  domObserver,         \* VideoDetector.domObserver (0: null)
  tftCheckInterval,    \* VideoDetector.tftCheckInterval (0: null)
  watchers,            \* the running intervals and connected observers of it
  startCalls,          \* the startMonitoring calls: did each start monitoring
  notifications,       \* the last two elements detectVideo called back with
  evaluated,           \* the TFT status at the last evaluation, if any
  nmsInput,            \* the matches handed to nonMaximumSuppression
  nmsMatches,          \* that array (matches) as the call leaves it
  filteredMatches,     \* the array the call returned
  nmsStage             \* "off", "input" before the call, "done" after it

cvVars == <<video, now, isProcessing, lastProcessTime, processingQueue,
            detectionCache, calls, detectedElements, overlayContainer,
            isVisible, hideTimers, fadeTimers>>

\* The pictures the video element shows while the processor runs: a video
\* without metadata has videoWidth = videoHeight = 0.
NoPattern == Pattern("v", Black, Black, 1)

nmsVars == <<nmsInput, nmsMatches, filteredMatches, nmsStage>>

detVars == <<detFrame, detElements, detStage, detProbe, detRegions, nmsVars>>

dataVars == <<augFile, traitFile, activationFile, augMgr, traitMgr, loads, answer>>

monVars == <<retryCount, monitoringInterval, domObserver, tftCheckInterval,
             watchers, startCalls, notifications, evaluated>>

extVars == <<isActive, isMonitoring, currentVideo, streamIsTft, lastTftStatus,
             cvProcessingInterval, intervals, timersCreated, message, monVars>>

VideoPicture(d, p, tainted) == [frame |-> FrameOf(d, p), tainted |-> tainted]

VideoStates ==
  { VideoPicture(<<0, 0>>, NoPattern, FALSE),
    VideoPicture(<<8, 8>>, Pattern("v", Black, Black, 1), FALSE),
    VideoPicture(<<8, 8>>, Pattern("c", Black, White, 2), FALSE),
    VideoPicture(<<8, 8>>, Pattern("c", Black, White, 2), TRUE) }

\* extractVideoFrame returns null when it fails.
NullFrameData == FrameOf(<<-1, -1>>, NoPattern)

\* What a block of code does: it completes with a value or it throws.
Returned(value) == [threw |-> FALSE, value |-> value]

ThrownFrame == [threw |-> TRUE, value |-> NullFrameData]

ThrownList == [threw |-> TRUE, value |-> <<>>]

\* getImageData throws on a 0 x 0 canvas (IndexSizeError) and on a canvas
\* tainted by cross-origin video data (SecurityError).
GetImageDataThrows(v) == v.frame.w = 0 \/ v.frame.h = 0 \/ v.tainted

\* extractVideoFrame: the canvas work runs inside try/catch; the catch logs
\* and returns null.
extractVideoFrame(v) ==
  LET body == IF GetImageDataThrows(v) THEN ThrownFrame ELSE Returned(v.frame)
  IN  IF body.threw THEN Returned(NullFrameData) ELSE body

\* A detector that answers from its history: after a first timed frame it
\* returns no elements.
detectTftElementsStale(frameData, fault) ==
  LET body == IF fault THEN ThrownList
              ELSE Returned(IF lastProcessTime > 0 THEN <<>> ELSE DetectAll(frameData))
  IN  IF body.threw THEN Returned(<<>>) ELSE body

\* detectTftElements: the four detectors run inside try/catch and their
\* results are pushed afterwards; an exception thrown in the try block
\* (fault) is caught and leaves the list empty.
detectTftElements(frameData, fault) ==
  LET body == IF fault THEN ThrownList ELSE Returned(DetectAll(frameData))
  IN  IF body.threw THEN Returned(<<>>) ELSE body

\* A guard that returns without a result object's elements.
SkipResultBare == [processingTime |-> 0]

\* The object returned when the reentrancy guard rejects the call.
SkipResult == [elements |-> <<>>, processingTime |-> 0]

\* The object returned when extractVideoFrame returned null.
NoFrameResult == [elements |-> <<>>, processingTime |-> 0]

\* The object returned after a completed detection.
DoneResult(results, processingTime) ==
  [elements |-> results, processingTime |-> processingTime]

\* The object returned by the catch block of processFrame.
CatchResult == [elements |-> <<>>, processingTime |-> 0]

\* A guard that never rejects a call.
GuardNeverSkips(flag) == FALSE

\* The guard at the entry of processFrame.
GuardSkips(flag) == flag

\* A processFrame without the reset in its finally block.
FinallyFlagKept == TRUE

\* isProcessing as the finally block leaves it.
FinallyFlag == FALSE

\* The try block of processFrame up to its await: it throws, returns a
\* result object, or suspends with the detected elements.
TryBlock(v, fault) ==
  LET ex == extractVideoFrame(v)
  IN  IF ex.threw THEN [kind |-> "throw"]
      ELSE IF ex.value = NullFrameData
        THEN [kind |-> "return", value |-> NoFrameResult]
      ELSE LET d == detectTftElements(ex.value, fault)
           IN  IF d.threw THEN [kind |-> "throw"]
               ELSE [kind |-> "await", frame |-> ex.value, results |-> d.value]

\* The catch block of processFrame turns an exception into a result.
CatchBlock(o) ==
  IF o.kind = "throw" THEN [kind |-> "return", value |-> CatchResult] ELSE o

DoneCall ==
  [pc |-> "done", src |-> "none", startTime |-> 0, skipped |-> FALSE,
   failed |-> FALSE, fault |-> FALSE, frame |-> NullFrameData, results |-> <<>>,
   pf |-> [pending |-> FALSE], rejected |-> FALSE]

IdleCall ==
  [pc |-> "idle", src |-> "none", startTime |-> 0, skipped |-> FALSE,
   failed |-> FALSE, fault |-> FALSE, frame |-> NullFrameData, results |-> <<>>,
   pf |-> [pending |-> TRUE], rejected |-> FALSE]

CallIds == 1..MaxCalls

NullContainer == [exists |-> FALSE, display |-> "none", opacity |-> 0, innerHTML |-> "none"]

CvInit ==
  /\ video \in VideoStates
  /\ now = 0
  /\ isProcessing = FALSE
  /\ lastProcessTime = 0
  /\ processingQueue = <<>>
  /\ detectionCache = {}
  /\ calls = [i \in CallIds |-> IdleCall]
  /\ detectedElements = <<>>
  /\ overlayContainer = NullContainer
  /\ isVisible = FALSE
  /\ hideTimers = <<>>
  /\ fadeTimers = 0

(***************************************************************************)
(* OverlayManager.                                                         *)
(***************************************************************************)

\* createOverlayContainer: the element is created hidden and transparent.
NewContainer == [exists |-> TRUE, display |-> "none", opacity |-> 0, innerHTML |-> "none"]

updateContent(c, content) ==
  IF ~c.exists THEN c ELSE [c EXCEPT !.innerHTML = content]

\* show() acts only on an existing container that is not visible.
ShowActs(c, visible) == c.exists /\ ~visible

show(c, visible) ==
  IF ShowActs(c, visible) THEN [c EXCEPT !.display = "block", !.opacity = 1] ELSE c

\* hide() acts only on an existing container that is visible.
HideActs(c, visible) == c.exists /\ visible

\* OverlayManager.initialize(videoElement): cleanup(), then a new container.
OverlayInitialize ==
  /\ overlayContainer' = NewContainer
  /\ isVisible' = FALSE
  /\ UNCHANGED <<video, now, isProcessing, lastProcessTime, processingQueue,
                 detectionCache, calls, detectedElements, hideTimers, fadeTimers>>
  /\ UNCHANGED <<detVars, dataVars, extVars>>

\* OverlayManager.cleanup(): the container is removed.
OverlayCleanup ==
  /\ overlayContainer.exists
  /\ overlayContainer' = NullContainer
  /\ isVisible' = FALSE
  /\ UNCHANGED <<video, now, isProcessing, lastProcessTime, processingQueue,
                 detectionCache, calls, detectedElements, hideTimers, fadeTimers>>
  /\ UNCHANGED <<detVars, dataVars, extVars>>

\* OverlayManager.showTestOverlay(): content, show(), auto-hide in 3000 ms.
ShowTestOverlay ==
  /\ Len(hideTimers) < MaxTimers
  /\ overlayContainer' = show(updateContent(overlayContainer, "test"), isVisible)
  /\ isVisible' = (isVisible \/ ShowActs(overlayContainer, isVisible))
  /\ hideTimers' = Append(hideTimers, HideDelay)
  /\ UNCHANGED <<video, now, isProcessing, lastProcessTime, processingQueue,
                 detectionCache, calls, detectedElements, fadeTimers>>
  /\ UNCHANGED <<detVars, dataVars, extVars>>

\* A 3000 ms timeout fires: OverlayManager.hide().
HideTimerFires ==
  /\ hideTimers # <<>>
  /\ hideTimers' = Tail(hideTimers)
  /\ IF HideActs(overlayContainer, isVisible)
       THEN /\ fadeTimers < MaxTimers
            /\ overlayContainer' = [overlayContainer EXCEPT !.opacity = 0]
            /\ fadeTimers' = fadeTimers + 1
            /\ isVisible' = FALSE
       ELSE UNCHANGED <<overlayContainer, fadeTimers, isVisible>>
  /\ UNCHANGED <<video, now, isProcessing, lastProcessTime, processingQueue,
                 detectionCache, calls, detectedElements>>
  /\ UNCHANGED <<detVars, dataVars, extVars>>

\* The FADE_DURATION timeout scheduled by hide() fires.
FadeTimerFires ==
  /\ fadeTimers > 0
  /\ fadeTimers' = fadeTimers - 1
  /\ overlayContainer' =
       IF overlayContainer.exists
         THEN [overlayContainer EXCEPT !.display = "none"]
         ELSE overlayContainer
  /\ UNCHANGED <<video, now, isProcessing, lastProcessTime, processingQueue,
                 detectionCache, calls, detectedElements, isVisible, hideTimers>>
  /\ UNCHANGED <<detVars, dataVars, extVars>>

(***************************************************************************)
(* SimpleCvProcessor.processFrame and TftExtension.processVideoFrame.      *)
(* JavaScript runs a handler to completion up to its next await, so an     *)
(* invocation is one step up to "await this.detectTftElements(...)", one   *)
(* step from there to the return of processFrame, and one step for the     *)
(* rest of processVideoFrame after "await this.cvProcessor.processFrame".  *)
(***************************************************************************)

\* processVideoFrame(videoElement) is invoked (by the interval timer or by
\* the popup's testCvProcessing request) and runs into processFrame.
processVideoFrame(i, src, fault) ==
  /\ calls[i].pc = "idle"
  /\ \A j \in CallIds : j < i => calls[j].pc # "idle"
  /\ IF GuardSkips(isProcessing)
       THEN /\ calls' = [calls EXCEPT ![i] =
                 [@ EXCEPT !.pc = "returned", !.src = src, !.skipped = TRUE,
                           !.pf = SkipResult]]
            /\ UNCHANGED isProcessing
       ELSE LET o == CatchBlock(TryBlock(video, fault))
            IN  CASE o.kind = "await" ->
                       /\ calls' = [calls EXCEPT ![i] =
                            [@ EXCEPT !.pc = "detecting", !.src = src,
                                      !.startTime = now, !.fault = fault,
                                      !.frame = o.frame, !.results = o.results]]
                       /\ isProcessing' = TRUE
                  [] o.kind = "return" ->
                       /\ calls' = [calls EXCEPT ![i] =
                            [@ EXCEPT !.pc = "returned", !.src = src,
                                      !.startTime = now, !.failed = TRUE,
                                      !.pf = o.value]]
                       /\ isProcessing' = FinallyFlag
                  [] OTHER ->
                       /\ calls' = [calls EXCEPT ![i] =
                            [@ EXCEPT !.pc = "returned", !.src = src,
                                      !.startTime = now, !.failed = TRUE,
                                      !.rejected = TRUE]]
                       /\ isProcessing' = FinallyFlag
  /\ UNCHANGED <<video, now, lastProcessTime, processingQueue, detectionCache,
                 detectedElements, overlayContainer, isVisible, hideTimers,
                 fadeTimers>>

\* A processVideoFrame invocation with nothing else happening in its step.
Invoke(i, src, fault) ==
  /\ processVideoFrame(i, src, fault)
  /\ UNCHANGED <<detVars, dataVars, extVars>>

\* processFrame resumes after the await: result object, then finally.
Resume(i) ==
  /\ calls[i].pc = "detecting"
  /\ LET processingTime == now - calls[i].startTime
     IN  /\ lastProcessTime' = processingTime
         /\ calls' = [calls EXCEPT ![i] =
              [@ EXCEPT !.pc = "returned",
                        !.pf = DoneResult(calls[i].results, processingTime)]]
  /\ isProcessing' = FinallyFlag
  /\ UNCHANGED <<video, now, processingQueue, detectionCache, detectedElements,
                 overlayContainer, isVisible, hideTimers, fadeTimers>>
  /\ UNCHANGED <<detVars, dataVars, extVars>>

\* A check that lets an empty element list through.
HasElementsOrNone(c) ==
  /\ ~c.rejected
  /\ "elements" \in DOMAIN c.pf

\* results.elements.length > 0.  A rejected processFrame promise or a
\* result without an elements array throws inside the try block of
\* processVideoFrame, whose catch block logs the error.
HasElements(c) ==
  /\ ~c.rejected
  /\ "elements" \in DOMAIN c.pf
  /\ Len(c.pf.elements) > 0

\* processVideoFrame resumes with the result of processFrame; non-empty
\* results are stored and shown (updateOverlayWithElements).
Finish(i) ==
  /\ calls[i].pc = "returned"
  /\ calls' = [calls EXCEPT ![i] = DoneCall]
  /\ IF HasElements(calls[i])
       THEN /\ Len(hideTimers) < MaxTimers
            /\ detectedElements' = calls[i].pf.elements
            /\ overlayContainer' =
                 show(updateContent(overlayContainer, "elements"), isVisible)
            /\ isVisible' = (isVisible \/ ShowActs(overlayContainer, isVisible))
            /\ hideTimers' = Append(hideTimers, HideDelay)
       ELSE UNCHANGED <<detectedElements, overlayContainer, isVisible, hideTimers>>
  /\ UNCHANGED <<video, now, isProcessing, lastProcessTime, processingQueue,
                 detectionCache, fadeTimers>>
  /\ UNCHANGED <<detVars, dataVars, extVars>>

\* The stream plays on: the video element shows another picture.
VideoPlays ==
  /\ \E v \in VideoStates : v # video /\ video' = v
  /\ UNCHANGED <<now, isProcessing, lastProcessTime, processingQueue,
                 detectionCache, calls, detectedElements, overlayContainer,
                 isVisible, hideTimers, fadeTimers>>
  /\ UNCHANGED <<detVars, dataVars, extVars>>

\* Time passes.
Tick ==
  /\ now < MaxTime
  /\ now' = now + 1
  /\ UNCHANGED <<video, isProcessing, lastProcessTime, processingQueue,
                 detectionCache, calls, detectedElements, overlayContainer,
                 isVisible, hideTimers, fadeTimers>>
  /\ UNCHANGED <<detVars, dataVars, extVars>>

CvNext ==
  \/ \E i \in CallIds, src \in {"timer", "popup"}, fault \in BOOLEAN :
       Invoke(i, src, fault)
  \/ \E i \in CallIds : Resume(i)
  \/ \E i \in CallIds : Finish(i)
  \/ VideoPlays
  \/ Tick
  \/ OverlayInitialize
  \/ OverlayCleanup
  \/ ShowTestOverlay
  \/ HideTimerFires
  \/ FadeTimerFires

(***************************************************************************)
(* The detector as a function of the frame: detectTftElements applied to   *)
(* one frame drawn from Frames.                                            *)
(***************************************************************************)
NoProbe ==
  [area |-> [x |-> 0, y |-> 0, width |-> 0, height |-> 0],
   params |-> [minWidth |-> 0, minHeight |-> 0, thrNum |-> 0, thrDen |-> 1]]

NoRegions == [found |-> FALSE, list |-> <<>>]

\* No TemplateMatcher call.
NmsOff ==
  /\ nmsInput = <<>>
  /\ nmsMatches = <<>>
  /\ filteredMatches = <<>>
  /\ nmsStage = "off"

DetOff ==
  /\ detFrame = NullFrameData
  /\ detElements = <<>>
  /\ detStage = "off"
  /\ detProbe = NoProbe
  /\ detRegions = NoRegions
  /\ NmsOff

DetInit ==
  /\ detFrame \in Frames
  /\ detElements = <<>>
  /\ detStage = "input"
  /\ detProbe = NoProbe
  /\ detRegions = NoRegions
  /\ NmsOff

NoMessage == [action |-> "none", responses |-> <<>>]

\* No extension object: the processor, the detector or a data manager alone.
ExtOff ==
  /\ isActive = FALSE
  /\ isMonitoring = FALSE
  /\ currentVideo = 0
  /\ streamIsTft = FALSE
  /\ lastTftStatus = FALSE
  /\ cvProcessingInterval = 0
  /\ intervals = {}
  /\ timersCreated = 0
  /\ message = NoMessage
  /\ retryCount = 0
  /\ monitoringInterval = 0
  /\ domObserver = 0
  /\ tftCheckInterval = 0
  /\ watchers = {}
  /\ startCalls = << >>
  /\ notifications = << >>
  /\ evaluated = << >>

Detect ==
  /\ detStage = "input"
  /\ detElements' = detectTftElements(detFrame, FALSE).value
  /\ detStage' = "detected"
  /\ UNCHANGED <<detFrame, detProbe, detRegions, nmsVars, cvVars, dataVars, extVars>>

\* Search areas and parameters handed to findRectangularRegions: areas at
\* offsets that are and are not multiples of 10, larger than the window, as
\* wide or as high as the window, and smaller than it.
SearchArea(x, y, width, height) == [x |-> x, y |-> y, width |-> width, height |-> height]

Params(minWidth, minHeight, thrNum, thrDen) ==
  [minWidth |-> minWidth, minHeight |-> minHeight, thrNum |-> thrNum, thrDen |-> thrDen]

Probe(area, params) == [area |-> area, params |-> params]

Probes ==
  { Probe(SearchArea(0, 0, 45, 38), Params(10, 10, 0, 1)),
    Probe(SearchArea(7, 3, 41, 33), Params(10, 10, 0, 1)),
    Probe(SearchArea(7, 3, 41, 33), Params(20, 15, 7, 10)),
    Probe(SearchArea(13, 26, 60, 70), Params(20, 20, 8, 10)),
    Probe(SearchArea(0, 0, 31, 21), Params(10, 10, 0, 1)),
    Probe(SearchArea(2, 2, 10, 30), Params(10, 10, 0, 1)),
    Probe(SearchArea(2, 2, 30, 10), Params(10, 10, 0, 1)),
    Probe(SearchArea(5, 5, 8, 8), Params(10, 10, 0, 1)),
    Probe(SearchArea(0, 0, 0, 0), Params(10, 10, 0, 1)) }

\* findRectangularRegions applied to the frame for one search area and one
\* set of parameters.
FindRegions(probe) ==
  /\ detStage = "input"
  /\ detProbe' = probe
  /\ detRegions' =
       [found |-> TRUE,
        list |-> findRectangularRegions(detFrame, probe.area, probe.params)]
  /\ detStage' = "scanned"
  /\ UNCHANGED <<detFrame, detElements, nmsVars, cvVars, dataVars, extVars>>

(***************************************************************************)
(* Text. A JavaScript string is a sequence of one-character strings.       *)
(***************************************************************************)
Lower(ch) == CASE ch = "A" -> "a" [] ch = "B" -> "b" [] OTHER -> ch

toLowerCase(s) == [i \in 1..Len(s) |-> Lower(s[i])]

RECURSIVE trimStart(_)
trimStart(s) ==
  IF s # <<>> /\ Head(s) = " " THEN trimStart(Tail(s)) ELSE s

RECURSIVE trimEnd(_)
trimEnd(s) ==
  IF s # <<>> /\ s[Len(s)] = " " THEN trimEnd(SubSeq(s, 1, Len(s) - 1)) ELSE s

trim(s) == trimEnd(trimStart(s))

includes(s, t) ==
  \E k \in 0..(Len(s) - Len(t)) : SubSeq(s, k + 1, k + Len(t)) = t

\* Array.prototype.slice(0, limit); a negative limit counts from the end.
slice(s, limit) ==
  IF limit >= 0
    THEN SubSeq(s, 1, IF limit < Len(s) THEN limit ELSE Len(s))
    ELSE SubSeq(s, 1, IF Len(s) + limit > 0 THEN Len(s) + limit ELSE 0)

\* String.prototype.localeCompare: letters compare without case first, the
\* space before every letter; equal letters are told apart by case, the lower
\* case first.
CharRank(ch) == CASE ch = " " -> 0 [] Lower(ch) = "a" -> 1 [] OTHER -> 2

RECURSIVE LexCompare(_, _)
LexCompare(a, b) ==
  IF a = <<>> /\ b = <<>> THEN 0
  ELSE IF a = <<>> THEN -1
  ELSE IF b = <<>> THEN 1
  ELSE IF Head(a) < Head(b) THEN -1
  ELSE IF Head(a) > Head(b) THEN 1
  ELSE LexCompare(Tail(a), Tail(b))

localeCompare(a, b) ==
  LET primary == LexCompare([i \in 1..Len(a) |-> CharRank(a[i])],
                            [i \in 1..Len(b) |-> CharRank(b[i])])
  IN IF primary # 0 THEN primary
     ELSE LexCompare([i \in 1..Len(a) |-> IF Lower(a[i]) = a[i] THEN 0 ELSE 1],
                     [i \in 1..Len(b) |-> IF Lower(b[i]) = b[i] THEN 0 ELSE 1])

(***************************************************************************)
(* What the query methods hand back.                                       *)
(***************************************************************************)
Null == [kind |-> "null"]

RecordResult(r) == [kind |-> "record", value |-> r]

ListResult(s) == [kind |-> "list", value |-> s]

StatsResult(n) == [kind |-> "stats", value |-> n]

\* this.traitsData.traits of a document without that list, and a method
\* called on it.
UndefinedResult == [kind |-> "undefined"]

Throws == [kind |-> "throws"]

\* A Map: a function on the keys that were set.
EmptyMap == [k \in {} |-> Null]

MapSet(m, k, v) == [x \in DOMAIN m \cup {k} |-> IF x = k THEN v ELSE m[x]]

MapGet(m, k) == IF k \in DOMAIN m THEN RecordResult(m[k]) ELSE Null

RECURSIVE SetAllByKey(_, _)
SetAllByKey(m, list) ==
  IF list = <<>> THEN m
  ELSE SetAllByKey(MapSet(m, Head(list).key, Head(list)), Tail(list))

Elements(list) == {list[i] : i \in 1..Len(list)}

(***************************************************************************)
(* The bundled asset files.                                                *)
(***************************************************************************)
MaxAugments == 3       \* records of the augments file
MaxTraits == 2         \* records of the traits file
MaxQueryLen == 2       \* characters of a search query
MaxLimit == 2          \* explicit limit arguments 0..MaxLimit
MaxCount == 7          \* champion counts 0..MaxCount
MaxLoadCalls == 2      \* loadData() calls in one behaviour

getTierPriority(tier) ==
  CASE tier = "Prismatic" -> 3 [] tier = "Gold" -> 2 [] tier = "Silver" -> 1
    [] OTHER -> 0

\* One record of tft-set14-augments.json as enhanceAugmentData writes it.
Augment(key, title, description, tier) ==
  [key |-> key, title |-> title, description |-> description, tier |-> tier,
   searchText |-> toLowerCase(title \o <<" ">> \o description),
   tierPriority |-> getTierPriority(tier)]

AugmentRecords ==
  { Augment("k1", <<"A", "b">>, <<"a">>, "Prismatic"),
    Augment("k2", <<"b">>, <<"A", "b">>, "Gold"),
    Augment("k3", <<"B", "a">>, <<"b">>, "Silver"),
    Augment("k1", <<"a">>, <<>>, "Gold") }

RECURSIVE ListsOver(_, _)
ListsOver(S, n) ==
  IF n = 0 THEN {<<>>}
  ELSE LET shorter == ListsOver(S, n - 1)
       IN shorter \cup {Append(l, x) : l \in {s \in shorter : Len(s) = n - 1}, x \in S}

AugmentFiles == ListsOver(AugmentRecords, MaxAugments)

AugmentKeys == {"k1", "k2", "k3", "k4"}

Tiers == {"Prismatic", "Gold", "Silver", "Unknown"}

QueryStrings == ListsOver({"a", "B", " "}, MaxQueryLen)

DefaultLimit == 10

Limits == 0..MaxLimit \cup {DefaultLimit}

\* getTierName of the trait generator.
getTierName(levelIndex, totalLevels) ==
  IF totalLevels = 1 THEN "Unique"
  ELSE CASE levelIndex = 0 -> "Bronze" [] levelIndex = 1 -> "Silver"
         [] levelIndex = 2 -> "Gold" [] levelIndex = 3 -> "Prismatic"
         [] levelIndex = 4 -> "Diamond" [] OTHER -> "Unknown"

\* The description the generator writes for one activation level.
LevelDescription(name, cleanDesc, index, total) ==
  IF total = 1 THEN [name |-> <<>>, tier |-> "", text |-> cleanDesc]
  ELSE [name |-> name, tier |-> getTierName(index, total), text |-> cleanDesc]

IndexOf(list, x) == CHOOSE i \in 1..Len(list) : list[i] = x

\* One record of tft-set14-traits.json as processTraitData writes it.
Trait(key, name, type, activationLevels, cleanDesc) ==
  [key |-> key, name |-> name, type |-> type,
   activationLevels |-> activationLevels,
   descriptions |->
     [l \in Elements(activationLevels) |->
        LevelDescription(name, cleanDesc, IndexOf(activationLevels, l) - 1,
                         Len(activationLevels))],
   searchText |-> toLowerCase(name \o <<" ">> \o cleanDesc)]

TraitRecords ==
  { Trait("t1", <<"A", "b">>, "class", <<2, 4, 6>>, <<"a">>),
    Trait("t2", <<"b">>, "origin", <<3, 5>>, <<"A", "b">>),
    Trait("t3", <<"a">>, "unique", <<1>>, <<"b">>),
    Trait("t5", <<"B", "a">>, "special", <<3>>, <<"a">>) }

\* The generator writes one record per trait of the set.
TraitFiles ==
  {l \in ListsOver(TraitRecords, MaxTraits) :
     \A i, j \in 1..Len(l) : i # j => l[i].key # l[j].key}

TraitKeys == {"t1", "t2", "t3", "t4"}

TraitTypes == {"class", "origin", "unique", "special"}

Counts == 0..MaxCount

\* The activation reference the generator derives from a list of traits.
ActivationEntry(trait) ==
  [key |-> trait.key, name |-> trait.name,
   levels |->
     [l \in Elements(trait.activationLevels) |->
        [level |-> l, description |-> trait.descriptions[l],
         tierName |-> getTierName(IndexOf(trait.activationLevels, l) - 1,
                                  Len(trait.activationLevels))]]]

ActivationRef(traits) == [i \in 1..Len(traits) |-> ActivationEntry(traits[i])]

\* The activation file shipped with a traits file: generated from it, or from
\* an earlier list that lacks its latest traits.
ActivationFilesFor(traits) ==
  {ActivationRef(SubSeq(traits, 1, n)) : n \in 0..Len(traits)}

(***************************************************************************)
(* AugmentsDataManager.                                                    *)
(***************************************************************************)
\* A parsed JSON document: null before any, else an object that may or may
\* not carry the expected list.
NoDocument == [isNull |-> TRUE, hasList |-> FALSE, list |-> <<>>]

Document(list) == [isNull |-> FALSE, hasList |-> TRUE, list |-> list]

OtherDocument == [isNull |-> FALSE, hasList |-> FALSE, list |-> <<>>]

\* What fetch() settles with, and what the body of a 200 response holds.
FetchOutcomes == {"ok", "notOk", "rejected"}

BodyKinds == {"file", "unparsable", "other"}

\* The constructor.
NewAugmentsDataManager ==
  [augmentsData |-> NoDocument, augmentMap |-> EmptyMap, isLoaded |-> FALSE,
   loadPromise |-> "null", pc |-> "idle", fetches |-> 0, seen |-> <<>>]

\* The catch block of _loadDataInternal: the promise fulfils with false.
AugCatch(m, event) ==
  [m EXCEPT !.isLoaded = FALSE, !.loadPromise = "false", !.pc = "done",
            !.seen = Append(@, event)]

\* if (this.loadPromise) return this.loadPromise
LoadNeverCached(promise) == FALSE

\* if (this.loadPromise) return this.loadPromise
LoadCached(promise) == promise # "null"

\* getAugment that ignores which key was asked for.
getAugmentAny(m, key) ==
  IF ~m.isLoaded THEN Null
  ELSE IF DOMAIN m.augmentMap = {} THEN Null
  ELSE RecordResult(m.augmentMap[CHOOSE k \in DOMAIN m.augmentMap : TRUE])

getAugment(m, key) ==
  IF ~m.isLoaded THEN Null
  ELSE MapGet(m.augmentMap, key)

TitleMatches(a, searchTerm) == includes(toLowerCase(a.title), searchTerm)

\* The comparator without its tier-priority tie break.
CompareAugmentsTitleOnly(a, b, searchTerm) ==
  LET aExactMatch == TitleMatches(a, searchTerm)
      bExactMatch == TitleMatches(b, searchTerm)
  IN IF aExactMatch /\ ~bExactMatch THEN -1
     ELSE IF ~aExactMatch /\ bExactMatch THEN 1
     ELSE 0

\* The comparator handed to matches.sort.
CompareAugments(a, b, searchTerm) ==
  LET aExactMatch == TitleMatches(a, searchTerm)
      bExactMatch == TitleMatches(b, searchTerm)
  IN IF aExactMatch /\ ~bExactMatch THEN -1
     ELSE IF ~aExactMatch /\ bExactMatch THEN 1
     ELSE b.tierPriority - a.tierPriority

\* Array.prototype.sort is stable: an element goes before the first one it
\* compares below.
RECURSIVE InsertAugment(_, _, _)
InsertAugment(x, sorted, searchTerm) ==
  IF sorted = <<>> THEN <<x>>
  ELSE IF CompareAugments(x, Head(sorted), searchTerm) < 0 THEN <<x>> \o sorted
  ELSE <<Head(sorted)>> \o InsertAugment(x, Tail(sorted), searchTerm)

RECURSIVE SortAugments(_, _)
SortAugments(list, searchTerm) ==
  IF list = <<>> THEN <<>>
  ELSE InsertAugment(list[Len(list)],
                     SortAugments(SubSeq(list, 1, Len(list) - 1), searchTerm),
                     searchTerm)

searchAugments(m, query, limit) ==
  IF ~m.isLoaded THEN ListResult(<<>>)
  ELSE LET searchTerm == trim(toLowerCase(query))
           Test(a) == includes(a.searchText, searchTerm)
       IN IF searchTerm = <<>> THEN ListResult(<<>>)
          ELSE ListResult(slice(SortAugments(SelectSeq(m.augmentsData.list, Test),
                                             searchTerm), limit))

getAugmentsByTier(m, tier) ==
  IF ~m.isLoaded THEN ListResult(<<>>)
  ELSE LET Test(a) == a.tier = tier
       IN ListResult(SelectSeq(m.augmentsData.list, Test))

getAllAugments(m) ==
  IF ~m.isLoaded THEN ListResult(<<>>) ELSE ListResult(m.augmentsData.list)

AugGetStats(m) ==
  IF ~m.isLoaded THEN Null ELSE StatsResult(Len(m.augmentsData.list))

\* A query: the method and its arguments (the unused ones left blank).
Query(op, key, text, n) == [op |-> op, key |-> key, text |-> text, n |-> n]

AugmentQueries ==
  {Query("getAugment", k, <<>>, 0) : k \in AugmentKeys}
    \cup {Query("searchAugments", "", q, l) : q \in QueryStrings, l \in Limits}
    \cup {Query("getAugmentsByTier", t, <<>>, 0) : t \in Tiers}
    \cup {Query("getAllAugments", "", <<>>, 0), Query("getStats", "", <<>>, 0)}

AugmentAnswer(m, q) ==
  CASE q.op = "getAugment" -> getAugment(m, q.key)
    [] q.op = "searchAugments" -> searchAugments(m, q.text, q.n)
    [] q.op = "getAugmentsByTier" -> getAugmentsByTier(m, q.key)
    [] q.op = "getAllAugments" -> getAllAugments(m)
    [] OTHER -> AugGetStats(m)

(***************************************************************************)
(* TraitsDataManager.                                                      *)
(***************************************************************************)
NewTraitsDataManager ==
  [traitsData |-> NoDocument, traitMap |-> EmptyMap, activationMap |-> EmptyMap,
   isLoaded |-> FALSE, loadPromise |-> "null", pc |-> "idle", fetches |-> 0,
   activationFetches |-> 0, seen |-> <<>>]

TraitCatch(m, event) ==
  [m EXCEPT !.isLoaded = FALSE, !.loadPromise = "false", !.pc = "done",
            !.seen = Append(@, event)]

getTrait(m, key) ==
  IF ~m.isLoaded THEN Null ELSE MapGet(m.traitMap, key)

getTraitActivation(m, key) ==
  IF ~m.isLoaded THEN Null ELSE MapGet(m.activationMap, key)

MaxOf(S) == CHOOSE x \in S : \A y \in S : y <= x

\* trait.activationLevels.find(reqLevel => reqLevel > activeLevel) || null
NextLevelAfter(levels, activeLevel) ==
  LET later == {i \in 1..Len(levels) : levels[i] > activeLevel}
  IN IF later = {} THEN Undefined
     ELSE levels[CHOOSE i \in later : \A j \in later : i <= j]

getTraitEffect(m, key, level) ==
  LET trait == getTrait(m, key)
      activation == getTraitActivation(m, key)
  IN IF trait = Null \/ activation = Null THEN Null
     ELSE LET levels == trait.value.activationLevels
              activeLevels == {l \in Elements(levels) : level >= l}
          IN IF activeLevels = {} THEN Null
             ELSE LET activeLevel == MaxOf(activeLevels)
                  IN IF activeLevel \notin DOMAIN activation.value.levels THEN Null
                     ELSE LET levelData == activation.value.levels[activeLevel]
                          IN [kind |-> "effect",
                              trait |-> trait.value,
                              activeLevel |-> activeLevel,
                              tierName |-> levelData.tierName,
                              description |-> levelData.description,
                              isMaxLevel |-> activeLevel = MaxOf(Elements(levels)),
                              nextLevel |-> NextLevelAfter(levels, activeLevel)]

\* TraitsDataManager.getActivationProgress(key, currentLevel); progress is
\* the exact quotient.
getActivationProgress(m, key, currentLevel) ==
  LET trait == getTrait(m, key)
  IN IF trait = Null THEN Null
     ELSE LET levels == trait.value.activationLevels
              nextLevel == NextLevelAfter(levels, currentLevel)
              passed == SelectSeq(levels, LAMBDA level : level <= currentLevel)
              previousLevel == IF passed = <<>> THEN 0 ELSE passed[Len(passed)]
          IN IF nextLevel = Undefined \/ nextLevel = 0
               THEN [kind |-> "progress", isMaxed |-> TRUE,
                     current |-> currentLevel,
                     max |-> MaxOf(Elements(levels)),
                     next |-> Undefined, previous |-> Undefined,
                     needed |-> Undefined, progress |-> Ratio(1, 1)]
               ELSE [kind |-> "progress", isMaxed |-> FALSE,
                     current |-> currentLevel,
                     max |-> Undefined,
                     next |-> nextLevel, previous |-> previousLevel,
                     needed |-> nextLevel - currentLevel,
                     progress |-> Ratio(currentLevel - previousLevel,
                                        nextLevel - previousLevel)]

\* The comparator handed to matches.sort in searchTraits.
CompareTraits(a, b, searchTerm) ==
  LET aExactMatch == includes(toLowerCase(a.name), searchTerm)
      bExactMatch == includes(toLowerCase(b.name), searchTerm)
  IN IF aExactMatch /\ ~bExactMatch THEN -1
     ELSE IF ~aExactMatch /\ bExactMatch THEN 1
     ELSE IF a.type # b.type THEN (IF a.type = "class" THEN -1 ELSE 1)
     ELSE localeCompare(a.name, b.name)

RECURSIVE InsertTrait(_, _, _)
InsertTrait(x, sorted, searchTerm) ==
  IF sorted = <<>> THEN <<x>>
  ELSE IF CompareTraits(x, Head(sorted), searchTerm) < 0 THEN <<x>> \o sorted
  ELSE <<Head(sorted)>> \o InsertTrait(x, Tail(sorted), searchTerm)

RECURSIVE SortTraits(_, _)
SortTraits(list, searchTerm) ==
  IF list = <<>> THEN <<>>
  ELSE InsertTrait(list[Len(list)],
                   SortTraits(SubSeq(list, 1, Len(list) - 1), searchTerm),
                   searchTerm)

searchTraits(m, query, limit) ==
  IF ~m.isLoaded THEN ListResult(<<>>)
  ELSE LET searchTerm == trim(toLowerCase(query))
           Test(t) == includes(t.searchText, searchTerm)
       IN IF searchTerm = <<>> THEN ListResult(<<>>)
          ELSE IF ~m.traitsData.hasList THEN Throws
          ELSE ListResult(slice(SortTraits(SelectSeq(m.traitsData.list, Test),
                                           searchTerm), limit))

getTraitsByType(m, type) ==
  IF ~m.isLoaded THEN ListResult(<<>>)
  ELSE IF ~m.traitsData.hasList THEN Throws
  ELSE LET Test(t) == t.type = type
       IN ListResult(SelectSeq(m.traitsData.list, Test))

getAllTraits(m) ==
  IF ~m.isLoaded THEN ListResult(<<>>)
  ELSE IF ~m.traitsData.hasList THEN UndefinedResult
  ELSE ListResult(m.traitsData.list)

TraitGetStats(m) ==
  IF ~m.isLoaded THEN Null ELSE StatsResult(Len(m.traitsData.list))

TraitQueries ==
  {Query("getTrait", k, <<>>, 0) : k \in TraitKeys}
    \cup {Query("getTraitActivation", k, <<>>, 0) : k \in TraitKeys}
    \cup {Query("getTraitEffect", k, <<>>, c) : k \in TraitKeys, c \in Counts}
    \cup {Query("getActivationProgress", k, <<>>, c) : k \in TraitKeys, c \in Counts}
    \cup {Query("searchTraits", "", q, l) : q \in QueryStrings, l \in Limits}
    \cup {Query("getTraitsByType", t, <<>>, 0) : t \in TraitTypes}
    \cup {Query("getAllTraits", "", <<>>, 0), Query("getStats", "", <<>>, 0)}

TraitAnswer(m, q) ==
  CASE q.op = "getTrait" -> getTrait(m, q.key)
    [] q.op = "getTraitActivation" -> getTraitActivation(m, q.key)
    [] q.op = "getTraitEffect" -> getTraitEffect(m, q.key, q.n)
    [] q.op = "getActivationProgress" -> getActivationProgress(m, q.key, q.n)
    [] q.op = "searchTraits" -> searchTraits(m, q.text, q.n)
    [] q.op = "getTraitsByType" -> getTraitsByType(m, q.key)
    [] q.op = "getAllTraits" -> getAllTraits(m)
    [] OTHER -> TraitGetStats(m)

(***************************************************************************)
(* The data managers as a state machine: loadData() callers, the fetches   *)
(* they wait for, and the query methods.                                   *)
(***************************************************************************)
LoadIds == 1..MaxLoadCalls

NoAnswer ==
  [mgr |-> "none", promise |-> "null", query |-> Query("none", "", <<>>, 0),
   result |-> Null]

\* Of a loadData() call: the manager called, the loadPromise it found and
\* what the call resolved to.
DataInit ==
  /\ augMgr = NewAugmentsDataManager
  /\ traitMgr = NewTraitsDataManager
  /\ loads = [c \in LoadIds |-> [mgr |-> "none", found |-> "null", result |-> "idle"]]
  /\ answer = NoAnswer

\* No asset is read while only the frame processor runs.
DataOff ==
  /\ augFile = <<>>
  /\ traitFile = <<>>
  /\ activationFile = <<>>
  /\ DataInit

FirstIdle(c) == loads[c].mgr = "none" /\ \A d \in LoadIds : d < c => loads[d].mgr # "none"

\* AugmentsDataManager.loadData() up to the await fetch of _loadDataInternal.
AugLoadData(c) ==
  /\ FirstIdle(c)
  /\ loads' = [loads EXCEPT ![c] = [mgr |-> "aug", found |-> augMgr.loadPromise,
                                    result |-> "pending"]]
  /\ augMgr' = IF LoadCached(augMgr.loadPromise) THEN augMgr
               ELSE [augMgr EXCEPT !.loadPromise = "pending", !.pc = "fetch",
                                   !.fetches = @ + 1]
  /\ UNCHANGED <<augFile, traitFile, activationFile, traitMgr, answer>>
  /\ UNCHANGED <<cvVars, detVars, extVars>>

\* fetch(dataUrl) settles; a response that is not ok is thrown.
AugFetchSettles(outcome) ==
  /\ augMgr.pc = "fetch"
  /\ augMgr' = IF outcome = "ok"
                 THEN [augMgr EXCEPT !.pc = "json", !.seen = Append(@, "ok")]
                 ELSE AugCatch(augMgr, outcome)
  /\ UNCHANGED <<augFile, traitFile, activationFile, traitMgr, loads, answer>>
  /\ UNCHANGED <<cvVars, detVars, extVars>>

\* response.json() settles; the lookup map is rebuilt from the list.
AugJsonSettles(body) ==
  /\ augMgr.pc = "json"
  /\ augMgr' =
       CASE body = "unparsable" -> AugCatch(augMgr, body)
         [] body = "other" ->
              AugCatch([augMgr EXCEPT !.augmentsData = OtherDocument,
                                      !.augmentMap = EmptyMap], body)
         [] OTHER ->
              [augMgr EXCEPT !.augmentsData = Document(augFile),
                             !.augmentMap = SetAllByKey(EmptyMap, augFile),
                             !.isLoaded = TRUE, !.loadPromise = "true",
                             !.pc = "done", !.seen = Append(@, body)]
  /\ UNCHANGED <<augFile, traitFile, activationFile, traitMgr, loads, answer>>
  /\ UNCHANGED <<cvVars, detVars, extVars>>

\* TraitsDataManager.loadData() up to the first await fetch.
TraitLoadData(c) ==
  /\ FirstIdle(c)
  /\ loads' = [loads EXCEPT ![c] = [mgr |-> "traits", found |-> traitMgr.loadPromise,
                                    result |-> "pending"]]
  /\ traitMgr' = IF LoadCached(traitMgr.loadPromise) THEN traitMgr
                 ELSE [traitMgr EXCEPT !.loadPromise = "pending", !.pc = "fetch",
                                       !.fetches = @ + 1]
  /\ UNCHANGED <<augFile, traitFile, activationFile, augMgr, answer>>
  /\ UNCHANGED <<cvVars, detVars, extVars>>

\* fetch(traitsUrl) settles.
TraitFetchSettles(outcome) ==
  /\ traitMgr.pc = "fetch"
  /\ traitMgr' = IF outcome = "ok"
                   THEN [traitMgr EXCEPT !.pc = "json", !.seen = Append(@, "ok")]
                   ELSE TraitCatch(traitMgr, outcome)
  /\ UNCHANGED <<augFile, traitFile, activationFile, augMgr, loads, answer>>
  /\ UNCHANGED <<cvVars, detVars, extVars>>

\* traitsResponse.json() settles and the activation file is requested.
TraitJsonSettles(body) ==
  /\ traitMgr.pc = "json"
  /\ traitMgr' =
       IF body = "unparsable" THEN TraitCatch(traitMgr, body)
       ELSE [traitMgr EXCEPT
               !.traitsData = IF body = "file" THEN Document(traitFile)
                              ELSE OtherDocument,
               !.activationFetches = @ + 1,
               !.pc = "fetchActivation", !.seen = Append(@, body)]
  /\ UNCHANGED <<augFile, traitFile, activationFile, augMgr, loads, answer>>
  /\ UNCHANGED <<cvVars, detVars, extVars>>

\* fetch(activationUrl) settles; a response that is not ok skips the block
\* that fills the maps.
ActivationFetchSettles(outcome) ==
  /\ traitMgr.pc = "fetchActivation"
  /\ traitMgr' =
       CASE outcome = "rejected" -> TraitCatch(traitMgr, outcome)
         [] outcome = "ok" ->
              [traitMgr EXCEPT !.pc = "jsonActivation", !.seen = Append(@, "ok")]
         [] OTHER ->
              [traitMgr EXCEPT !.isLoaded = TRUE, !.loadPromise = "true",
                               !.pc = "done", !.seen = Append(@, outcome)]
  /\ UNCHANGED <<augFile, traitFile, activationFile, augMgr, loads, answer>>
  /\ UNCHANGED <<cvVars, detVars, extVars>>

\* activationResponse.json() settles; both maps are rebuilt.
ActivationJsonSettles(body) ==
  /\ traitMgr.pc = "jsonActivation"
  /\ traitMgr' =
       IF body = "unparsable" THEN TraitCatch(traitMgr, body)
       ELSE IF ~traitMgr.traitsData.hasList
         THEN TraitCatch([traitMgr EXCEPT !.traitMap = EmptyMap,
                                          !.activationMap = EmptyMap], "other")
       ELSE [traitMgr EXCEPT
               !.traitMap = SetAllByKey(EmptyMap, traitMgr.traitsData.list),
               !.activationMap = IF body = "file"
                                   THEN SetAllByKey(EmptyMap, activationFile)
                                   ELSE EmptyMap,
               !.isLoaded = TRUE, !.loadPromise = "true", !.pc = "done",
               !.seen = Append(@, body)]
  /\ UNCHANGED <<augFile, traitFile, activationFile, augMgr, loads, answer>>
  /\ UNCHANGED <<cvVars, detVars, extVars>>

PromiseOf(mgr) == IF mgr = "aug" THEN augMgr.loadPromise ELSE traitMgr.loadPromise

Settled(promise) == promise \in {"true", "false"}

\* The promise a loadData() call returned settles as loadPromise did.
LoadSettles(c) ==
  /\ loads[c].result = "pending"
  /\ Settled(PromiseOf(loads[c].mgr))
  /\ loads' = [loads EXCEPT ![c].result = PromiseOf(loads[c].mgr)]
  /\ UNCHANGED <<augFile, traitFile, activationFile, augMgr, traitMgr, answer>>
  /\ UNCHANGED <<cvVars, detVars, extVars>>

\* A query method of AugmentsDataManager is called; the methods are
\* synchronous, so the caller has no other answer in hand.
AugQuery(q) ==
  /\ answer = NoAnswer
  /\ answer' = [mgr |-> "aug", promise |-> augMgr.loadPromise, query |-> q,
                result |-> AugmentAnswer(augMgr, q)]
  /\ UNCHANGED <<augFile, traitFile, activationFile, augMgr, traitMgr, loads>>
  /\ UNCHANGED <<cvVars, detVars, extVars>>

\* A query method of TraitsDataManager is called.
TraitQuery(q) ==
  /\ answer = NoAnswer
  /\ answer' = [mgr |-> "traits", promise |-> traitMgr.loadPromise, query |-> q,
                result |-> TraitAnswer(traitMgr, q)]
  /\ UNCHANGED <<augFile, traitFile, activationFile, augMgr, traitMgr, loads>>
  /\ UNCHANGED <<cvVars, detVars, extVars>>

\* The caller of a query method is done with what it returned.
AnswerUsed ==
  /\ answer # NoAnswer
  /\ answer' = NoAnswer
  /\ UNCHANGED <<augFile, traitFile, activationFile, augMgr, traitMgr, loads>>
  /\ UNCHANGED <<cvVars, detVars, extVars>>

\* AugmentsDataManager over every augments file, loadData() called once.
InitAug ==
  /\ CvInit /\ video = VideoPicture(<<0, 0>>, NoPattern, FALSE)
  /\ DetOff
  /\ augFile \in AugmentFiles
  /\ traitFile = <<>>
  /\ activationFile = <<>>
  /\ DataInit
  /\ ExtOff

NextAug ==
  \/ AugLoadData(1)
  \/ \E outcome \in FetchOutcomes : AugFetchSettles(outcome)
  \/ \E body \in BodyKinds : AugJsonSettles(body)
  \/ LoadSettles(1)
  \/ \E q \in AugmentQueries : AugQuery(q)
  \/ AnswerUsed

\* TraitsDataManager over every traits file and its activation files.
InitTraits ==
  /\ CvInit /\ video = VideoPicture(<<0, 0>>, NoPattern, FALSE)
  /\ DetOff
  /\ augFile = <<>>
  /\ traitFile \in TraitFiles
  /\ activationFile \in ActivationFilesFor(traitFile)
  /\ DataInit
  /\ ExtOff

NextTraits ==
  \/ TraitLoadData(1)
  \/ \E outcome \in FetchOutcomes : TraitFetchSettles(outcome)
  \/ \E body \in BodyKinds : TraitJsonSettles(body)
  \/ \E outcome \in FetchOutcomes : ActivationFetchSettles(outcome)
  \/ \E body \in BodyKinds : ActivationJsonSettles(body)
  \/ LoadSettles(1)
  \/ \E q \in TraitQueries : TraitQuery(q)
  \/ AnswerUsed

\* Both managers side by side on one pair of files, one query per method.
AugmentProbes ==
  {Query("getAugment", "k1", <<>>, 0), Query("searchAugments", "", <<"a">>, DefaultLimit),
   Query("getAugmentsByTier", "Gold", <<>>, 0), Query("getAllAugments", "", <<>>, 0),
   Query("getStats", "", <<>>, 0)}

TraitProbes ==
  {Query("getTrait", "t1", <<>>, 0), Query("getTraitActivation", "t1", <<>>, 0),
   Query("getTraitEffect", "t1", <<>>, 5), Query("getActivationProgress", "t1", <<>>, 3),
   Query("searchTraits", "", <<"a">>, DefaultLimit),
   Query("getTraitsByType", "class", <<>>, 0), Query("getAllTraits", "", <<>>, 0),
   Query("getStats", "", <<>>, 0)}

InitData ==
  /\ CvInit /\ video = VideoPicture(<<0, 0>>, NoPattern, FALSE)
  /\ DetOff
  /\ augFile = <<Augment("k2", <<"b">>, <<"A", "b">>, "Gold"),
                 Augment("k1", <<"A", "b">>, <<"a">>, "Prismatic")>>
  /\ traitFile = <<Trait("t1", <<"A", "b">>, "class", <<2, 4, 6>>, <<"a">>),
                   Trait("t3", <<"a">>, "unique", <<1>>, <<"b">>)>>
  /\ activationFile \in ActivationFilesFor(traitFile)
  /\ DataInit
  /\ ExtOff

NextData ==
  \/ \E c \in LoadIds : AugLoadData(c)
  \/ \E outcome \in FetchOutcomes : AugFetchSettles(outcome)
  \/ \E body \in BodyKinds : AugJsonSettles(body)
  \/ \E c \in LoadIds : TraitLoadData(c)
  \/ \E outcome \in FetchOutcomes : TraitFetchSettles(outcome)
  \/ \E body \in BodyKinds : TraitJsonSettles(body)
  \/ \E outcome \in FetchOutcomes : ActivationFetchSettles(outcome)
  \/ \E body \in BodyKinds : ActivationJsonSettles(body)
  \/ \E c \in LoadIds : LoadSettles(c)
  \/ \E q \in AugmentProbes : AugQuery(q)
  \/ \E q \in TraitProbes : TraitQuery(q)
  \/ AnswerUsed

(***************************************************************************)
(* TftExtension, VideoDetector and the popup's message listener.  A video  *)
(* element of the page is a number 1..MaxVideos, null is 0; the timers of  *)
(* startCvProcessing are numbered as setInterval creates them.             *)
(***************************************************************************)
MaxVideos == 2         \* video elements the page shows in one behaviour
MaxIntervals == 2      \* setInterval calls of startCvProcessing

VideoIds == 1..MaxVideos

\* The popup's last request has been answered.
NoRequest == message = NoMessage

\* SimpleCvProcessor.isReady()
isReady == TRUE

\* The OverlayManager and the timeouts it has pending, as one value.
Overlay ==
  [container |-> overlayContainer, visible |-> isVisible,
   hide |-> hideTimers, fade |-> fadeTimers]

\* OverlayManager.cleanup()
cleanup(o) == [o EXCEPT !.container = NullContainer, !.visible = FALSE]

\* OverlayManager.initialize(videoElement): createOverlayContainer() runs
\* cleanup() and makes a new container.
initialize(o) == [cleanup(o) EXCEPT !.container = NewContainer]

\* OverlayManager.showTestOverlay()
showTestOverlay(o) ==
  [o EXCEPT !.container = show(updateContent(o.container, "test"), o.visible),
            !.visible = o.visible \/ ShowActs(o.container, o.visible),
            !.hide = Append(o.hide, HideDelay)]

\* OverlayManager.hide()
hide(o) ==
  IF HideActs(o.container, o.visible)
    THEN [o EXCEPT !.container = [o.container EXCEPT !.opacity = 0],
                   !.fade = o.fade + 1, !.visible = FALSE]
    ELSE o

\* The room the model has for the timeouts of o.
TimersFit(o) == Len(o.hide) <= MaxTimers /\ o.fade <= MaxTimers

SetOverlay(o) ==
  /\ TimersFit(o)
  /\ overlayContainer' = o.container
  /\ isVisible' = o.visible
  /\ hideTimers' = o.hide
  /\ fadeTimers' = o.fade

\* handleVideoChange after setupOverlay: the overlay follows isTftStream();
\* without a video element it is cleaned up.
handleVideoChange(o, videoElement) ==
  IF videoElement = 0 THEN cleanup(o)
  ELSE IF streamIsTft THEN showTestOverlay(o)
  ELSE hide(o)

\* startCvProcessing on a timer handle that a restart first clears.
startCvProcessingCleared(running, handle) == {handle}

\* startCvProcessing: setInterval adds a timer to the running ones.
startCvProcessing(running, handle) == running \cup {handle}

\* CONFIG.PERFORMANCE.MAX_RETRY_ATTEMPTS
MAX_RETRY_ATTEMPTS == 3

MaxStarts == 3         \* startMonitoring calls in one behaviour

\* A running setInterval timer ("poll", "tft") or a connected
\* MutationObserver ("dom"), numbered by the startMonitoring call that made it.
Watcher(kind, id) == [kind |-> kind, id |-> id]

\* The record of the callback's arguments after a call with v: the last two.
Notified(log, v) == IF Len(log) < 2 THEN Append(log, v) ELSE << log[2], v >>

\* A detectVideo that calls back on every run.
detectVideoAlways(found) ==
  /\ currentVideo' = found
  /\ retryCount' = IF found # currentVideo THEN 0 ELSE retryCount
  /\ notifications' = Notified(notifications, found)

\* VideoDetector.detectVideo(callback) when findVideoElement() returns found:
\* the fields it writes and the callback's argument.
detectVideo(found) ==
  IF found # currentVideo
    THEN /\ currentVideo' = found
         /\ retryCount' = 0
         /\ notifications' = Notified(notifications, found)
    ELSE /\ retryCount' = IF found = 0 /\ retryCount < MAX_RETRY_ATTEMPTS
                            THEN retryCount + 1 ELSE retryCount
         /\ UNCHANGED <<currentVideo, notifications>>

\* A stopMonitoring that leaves the TFT-status interval running.
stopMonitoringLeaky ==
  IF ~isMonitoring
    THEN UNCHANGED <<isMonitoring, monitoringInterval, domObserver,
                     tftCheckInterval, watchers, currentVideo>>
    ELSE /\ isMonitoring' = FALSE
         /\ watchers' = watchers \ {Watcher("poll", monitoringInterval),
                                     Watcher("dom", domObserver)}
         /\ monitoringInterval' = 0
         /\ domObserver' = 0
         /\ tftCheckInterval' = 0
         /\ currentVideo' = 0

\* VideoDetector.stopMonitoring()
stopMonitoring ==
  IF ~isMonitoring
    THEN UNCHANGED <<isMonitoring, monitoringInterval, domObserver,
                     tftCheckInterval, watchers, currentVideo>>
    ELSE /\ isMonitoring' = FALSE
         /\ watchers' = watchers \ {Watcher("poll", monitoringInterval),
                                     Watcher("dom", domObserver),
                                     Watcher("tft", tftCheckInterval)}
         /\ monitoringInterval' = 0
         /\ domObserver' = 0
         /\ tftCheckInterval' = 0
         /\ currentVideo' = 0

\* VideoDetector.startMonitoring(callback) as call number id, when
\* findVideoElement() returns found.
startMonitoring(id, found) ==
  IF isMonitoring
    THEN UNCHANGED <<isMonitoring, monitoringInterval, domObserver,
                     tftCheckInterval, watchers, currentVideo, retryCount,
                     notifications>>
    ELSE /\ isMonitoring' = TRUE
         /\ detectVideo(found)
         /\ monitoringInterval' = id
         /\ domObserver' = id
         /\ tftCheckInterval' = id
         /\ watchers' = watchers \cup {Watcher("poll", id), Watcher("dom", id),
                                        Watcher("tft", id)}

\* VideoDetector.checkTftStreamStatus(callback): lastTftStatus changes exactly
\* when the callback is called with tftStatusChanged.
checkTftStreamStatus ==
  /\ lastTftStatus' = streamIsTft
  /\ evaluated' = << streamIsTft >>

\* detectVideo finds element v, not the current one: handleVideoChange sets
\* up the overlay and starts CV processing for it.
VideoDetected(v) ==
  /\ NoRequest
  /\ isMonitoring
  /\ v # currentVideo
  /\ timersCreated < MaxIntervals
  /\ detectVideo(v)
  /\ evaluated' = << streamIsTft >>
  /\ UNCHANGED <<monitoringInterval, domObserver, tftCheckInterval, watchers,
                 startCalls>>
  /\ timersCreated' = timersCreated + 1
  /\ cvProcessingInterval' = timersCreated + 1
  /\ intervals' = startCvProcessing(intervals, timersCreated + 1)
  /\ SetOverlay(handleVideoChange(initialize(Overlay), v))
  /\ UNCHANGED <<video, now, isProcessing, lastProcessTime, processingQueue,
                 detectionCache, calls, detectedElements>>
  /\ UNCHANGED <<isActive, isMonitoring, streamIsTft, lastTftStatus, message>>
  /\ UNCHANGED <<detVars, dataVars>>

\* detectVideo finds no valid video element any more.
VideoLost ==
  /\ NoRequest
  /\ isMonitoring
  /\ currentVideo # 0
  /\ detectVideo(0)
  /\ UNCHANGED <<monitoringInterval, domObserver, tftCheckInterval, watchers,
                 startCalls, evaluated>>
  /\ SetOverlay(handleVideoChange(Overlay, 0))
  /\ UNCHANGED <<video, now, isProcessing, lastProcessTime, processingQueue,
                 detectionCache, calls, detectedElements>>
  /\ UNCHANGED <<isActive, isMonitoring, streamIsTft, lastTftStatus,
                 cvProcessingInterval, intervals, timersCreated, message>>
  /\ UNCHANGED <<detVars, dataVars>>

\* The stream title gains or loses its TFT keyword.
TitleChanges ==
  /\ NoRequest
  /\ streamIsTft' = ~streamIsTft
  /\ UNCHANGED <<cvVars, detVars, dataVars, monVars>>
  /\ UNCHANGED <<isActive, isMonitoring, currentVideo, lastTftStatus,
                 cvProcessingInterval, intervals, timersCreated, message>>

\* checkTftStreamStatus (every 5 s) sees a changed status and calls back with
\* tftStatusChanged.
TftStatusChanged ==
  /\ NoRequest
  /\ isMonitoring
  /\ streamIsTft # lastTftStatus
  /\ checkTftStreamStatus
  /\ UNCHANGED <<retryCount, monitoringInterval, domObserver, tftCheckInterval,
                 watchers, startCalls, notifications>>
  /\ SetOverlay(handleVideoChange(Overlay, currentVideo))
  /\ UNCHANGED <<video, now, isProcessing, lastProcessTime, processingQueue,
                 detectionCache, calls, detectedElements>>
  /\ UNCHANGED <<isActive, isMonitoring, currentVideo, streamIsTft,
                 cvProcessingInterval, intervals, timersCreated, message>>
  /\ UNCHANGED <<detVars, dataVars>>

\* detectVideo finds what it found before: nothing changes but the count of
\* its retries when that is no element.
VideoUnchanged(v) ==
  /\ NoRequest
  /\ isMonitoring
  /\ v = currentVideo
  /\ detectVideo(v)
  /\ UNCHANGED <<cvVars, detVars, dataVars>>
  /\ UNCHANGED <<isActive, isMonitoring, streamIsTft, lastTftStatus,
                 cvProcessingInterval, intervals, timersCreated, message>>
  /\ UNCHANGED <<monitoringInterval, domObserver, tftCheckInterval, watchers,
                 startCalls, evaluated>>

\* checkTftStreamStatus sees the status it saw before: no callback.
TftStatusUnchanged ==
  /\ NoRequest
  /\ isMonitoring
  /\ streamIsTft = lastTftStatus
  /\ checkTftStreamStatus
  /\ UNCHANGED <<cvVars, detVars, dataVars>>
  /\ UNCHANGED <<isActive, isMonitoring, currentVideo, streamIsTft,
                 cvProcessingInterval, intervals, timersCreated, message>>
  /\ UNCHANGED <<retryCount, monitoringInterval, domObserver, tftCheckInterval,
                 watchers, startCalls, notifications>>

\* stopCvProcessing: clearInterval on the handle the extension holds.
stopCvProcessing(running, handle) == running \ {handle}

\* TftExtension.cleanup() on page unload.
ExtCleanup ==
  /\ NoRequest
  /\ isActive
  /\ stopMonitoring
  /\ UNCHANGED <<retryCount, startCalls, notifications, evaluated>>
  /\ intervals' = stopCvProcessing(intervals, cvProcessingInterval)
  /\ cvProcessingInterval' = 0
  /\ detectionCache' = {}
  /\ SetOverlay(cleanup(Overlay))
  /\ isActive' = FALSE
  /\ UNCHANGED <<video, now, isProcessing, lastProcessTime, processingQueue,
                 calls, detectedElements>>
  /\ UNCHANGED <<streamIsTft, lastTftStatus, timersCreated, message>>
  /\ UNCHANGED <<detVars, dataVars>>

\* The callback of a running interval timer: processVideoFrame(videoElement).
CvTimerFires(h, i, fault) ==
  /\ NoRequest
  /\ h \in intervals
  /\ Invoke(i, "timer", fault)

\* TftExtension.getStatus() with the videoInfo the listener adds.
getStatus ==
  [isActive |-> isActive, hasVideo |-> currentVideo # 0,
   isOverlayVisible |-> isVisible, isTftStream |-> streamIsTft,
   cvReady |-> isReady, detectedElements |-> Len(detectedElements),
   videoInfo |-> IF currentVideo # 0 THEN video.frame ELSE NullFrameData]

\* A listener that answers a testCvProcessing request only when it starts
\* processing.
ListenerSilent(action) ==
  CASE action = "getStatus" -> << getStatus >>
    [] action = "testOverlay" -> << [success |-> TRUE] >>
    [] action = "testCvProcessing" ->
         IF isReady /\ currentVideo # 0
           THEN << [success |-> TRUE, message |-> "CV processing triggered"] >>
           ELSE << >>
    [] OTHER -> << [error |-> "Unknown action"] >>

\* The sendResponse calls of the onMessage listener, in order.
Listener(action) ==
  CASE action = "getStatus" -> << getStatus >>
    [] action = "testOverlay" -> << [success |-> TRUE] >>
    [] action = "testCvProcessing" ->
         IF ~isReady THEN << [success |-> FALSE, error |-> "OpenCV not ready"] >>
         ELSE IF currentVideo # 0
           THEN << [success |-> TRUE, message |-> "CV processing triggered"] >>
         ELSE << [success |-> FALSE, error |-> "No video available"] >>
    [] OTHER -> << [error |-> "Unknown action"] >>

\* The actions the popup sends, and one it does not know.
Actions == {"getStatus", "testOverlay", "testCvProcessing", "reload"}

\* The onMessage listener handles one request.
OnMessage(action, i, fault) ==
  /\ NoRequest
  /\ message' = [action |-> action, responses |-> Listener(action)]
  /\ CASE action = "testOverlay" ->
            /\ SetOverlay(showTestOverlay(Overlay))
            /\ UNCHANGED <<video, now, isProcessing, lastProcessTime,
                           processingQueue, detectionCache, calls,
                           detectedElements>>
       [] action = "testCvProcessing" /\ isReady /\ currentVideo # 0 ->
            processVideoFrame(i, "popup", fault)
       [] OTHER -> UNCHANGED cvVars
  /\ UNCHANGED <<isActive, isMonitoring, currentVideo, streamIsTft,
                 lastTftStatus, cvProcessingInterval, intervals, timersCreated>>
  /\ UNCHANGED <<detVars, dataVars, monVars>>

\* The extension after initialize(): active and monitoring on a supported
\* page, inactive elsewhere; no video element found yet.
InitExt ==
  /\ CvInit /\ video = VideoPicture(<<8, 8>>, Pattern("c", Black, White, 2), FALSE)
  /\ DetOff
  /\ DataOff
  /\ isActive \in BOOLEAN
  /\ isMonitoring = isActive
  /\ currentVideo = 0
  /\ streamIsTft \in BOOLEAN
  /\ lastTftStatus = FALSE
  /\ cvProcessingInterval = 0
  /\ intervals = {}
  /\ timersCreated = 0
  /\ message = NoMessage
  /\ retryCount = (IF isActive THEN 1 ELSE 0)
  /\ monitoringInterval = (IF isActive THEN 1 ELSE 0)
  /\ domObserver = (IF isActive THEN 1 ELSE 0)
  /\ tftCheckInterval = (IF isActive THEN 1 ELSE 0)
  /\ watchers = (IF isActive
                   THEN {Watcher("poll", 1), Watcher("dom", 1), Watcher("tft", 1)}
                   ELSE {})
  /\ startCalls = (IF isActive THEN << TRUE >> ELSE << >>)
  /\ notifications = << >>
  /\ evaluated = << >>

\* The response has gone back to the popup: the record of the request is
\* dropped before the page's next event.
ResponseSent ==
  /\ message # NoMessage
  /\ message' = NoMessage
  /\ UNCHANGED <<cvVars, detVars, dataVars, monVars>>
  /\ UNCHANGED <<isActive, isMonitoring, currentVideo, streamIsTft,
                 lastTftStatus, cvProcessingInterval, intervals, timersCreated>>

PageResume(i) == NoRequest /\ Resume(i)

PageFinish(i) == NoRequest /\ Finish(i)

PageHideTimerFires == NoRequest /\ HideTimerFires

PageFadeTimerFires == NoRequest /\ FadeTimerFires

NextExt ==
  \/ \E v \in VideoIds : VideoDetected(v)
  \/ VideoLost
  \/ TitleChanges
  \/ \E v \in {0} \cup VideoIds : VideoUnchanged(v)
  \/ TftStatusChanged
  \/ TftStatusUnchanged
  \/ ExtCleanup
  \/ \E h \in 1..MaxIntervals, i \in CallIds, fault \in BOOLEAN : CvTimerFires(h, i, fault)
  \/ \E a \in Actions \ {"testCvProcessing"} : OnMessage(a, 1, FALSE)
  \/ \E i \in CallIds, fault \in BOOLEAN : OnMessage("testCvProcessing", i, fault)
  \/ \E i \in CallIds : PageResume(i)
  \/ \E i \in CallIds : PageFinish(i)
  \/ PageHideTimerFires
  \/ PageFadeTimerFires
  \/ ResponseSent

(***************************************************************************)
(* The overlay's timeouts on a clock.  Every auto-hide timeout is set for  *)
(* the same delay, so they come due in the order they were set; the fade   *)
(* timeout of hide() is shorter than a second.                             *)
(***************************************************************************)

\* A second passes: no timeout is overdue, every pending auto-hide timeout
\* has a second less to go.
Elapse ==
  /\ hideTimers # <<>>
  /\ \A k \in 1..Len(hideTimers) : hideTimers[k] > 0
  /\ fadeTimers = 0
  /\ hideTimers' = [k \in 1..Len(hideTimers) |-> hideTimers[k] - 1]
  /\ UNCHANGED <<video, now, isProcessing, lastProcessTime, processingQueue,
                 detectionCache, calls, detectedElements, overlayContainer,
                 isVisible, fadeTimers>>
  /\ UNCHANGED <<detVars, dataVars, extVars>>

\* The oldest auto-hide timeout has run its 3000 ms and fires.
HideTimerDue ==
  /\ hideTimers # <<>>
  /\ Head(hideTimers) = 0
  /\ HideTimerFires

NextTimed ==
  \/ OverlayInitialize
  \/ OverlayCleanup
  \/ ShowTestOverlay
  \/ \E i \in CallIds : Invoke(i, "timer", FALSE)
  \/ \E i \in CallIds : Resume(i)
  \/ \E i \in CallIds : Finish(i)
  \/ HideTimerDue
  \/ FadeTimerFires
  \/ Elapse

vars == <<cvVars, detVars, dataVars, extVars>>

Init == CvInit /\ DetOff /\ DataOff /\ ExtOff

Next == CvNext

Spec == Init /\ [][Next]_vars

NextDetect ==
  \/ Detect
  \/ \E probe \in Probes : FindRegions(probe)

InitDetect ==
  /\ CvInit
  /\ video = VideoPicture(<<0, 0>>, NoPattern, FALSE)
  /\ DetInit
  /\ DataOff
  /\ ExtOff

SpecDetect == InitDetect /\ [][NextDetect]_vars

SpecAug == InitAug /\ [][NextAug]_vars

SpecTraits == InitTraits /\ [][NextTraits]_vars

SpecData == InitData /\ [][NextData]_vars

SpecExt == InitExt /\ [][NextExt]_vars

SpecTimed == Init /\ [][NextTimed]_vars

(***************************************************************************)
(* Properties.                                                             *)
(***************************************************************************)

Active(i) == calls[i].pc = "detecting"

Entered(i) == calls[i].pc = "idle" /\ calls'[i].pc # "idle"

\* C1: a processFrame invocation made while isProcessing is set returns
\* { elements: [], processingTime: 0 } at once, without extracting a frame or
\* detecting, leaves the processor untouched, and is dropped: it is not
\* queued and the only thing that happens to it later is that its caller
\* finishes without storing elements.
C1_GuardDropsCall ==
  [][\A i \in CallIds :
       /\ (Entered(i) /\ isProcessing) =>
            /\ calls'[i].pc = "returned"
            /\ calls'[i].skipped
            /\ calls'[i].pf = [elements |-> <<>>, processingTime |-> 0]
            /\ calls'[i].frame = NullFrameData
            /\ calls'[i].results = <<>>
            /\ processingQueue' = <<>>
            /\ UNCHANGED <<isProcessing, lastProcessTime>>
       /\ calls[i].skipped =>
            \/ calls'[i] = calls[i]
            \/ calls'[i] = DoneCall /\ UNCHANGED <<detectedElements, processingQueue>>
    ]_vars

C1_Witness ==
  \E i, j \in CallIds : Active(i) /\ calls[j].skipped /\ calls[j].pc = "returned"

\* C2: every element that detectTftElements returns for a frame of at least
\* 1 x 1 pixels lies inside the frame.
C2_ElementsInsideFrame ==
  (detStage = "detected" /\ detFrame.w >= 1 /\ detFrame.h >= 1) =>
    \A k \in 1..Len(detElements) :
      /\ 0 <= detElements[k].x
      /\ 0 <= detElements[k].y
      /\ detElements[k].x + detElements[k].width <= detFrame.w
      /\ detElements[k].y + detElements[k].height <= detFrame.h

C2_Witness ==
  /\ detStage = "detected"
  /\ \A t \in {"augment", "champion", "shop", "gold"} :
       \E k \in 1..Len(detElements) : detElements[k].type = t

\* C7: at most one invocation is between setting isProcessing and its
\* finally block, and isProcessing is true exactly while one is.
C7_OneActiveInvocation ==
  /\ Cardinality({ i \in CallIds : Active(i) }) <= 1
  /\ isProcessing <=> (\E i \in CallIds : Active(i))

C7_Witness ==
  \E i, j \in CallIds :
    /\ i # j
    /\ Active(i)
    /\ isProcessing
    /\ calls[j].pc = "returned"
    /\ calls[j].src # calls[i].src

\* C9: an invocation whose frame extraction fails resolves with an empty
\* element list and leaves isProcessing false, and an invocation made after
\* it on an extractable picture, with no other invocation active, is
\* processed and not skipped.
C9_ExtractionFailureIsLocal ==
  [][\A i \in CallIds :
       /\ (~calls[i].failed /\ calls'[i].failed) =>
            /\ calls'[i].pc = "returned"
            /\ ~calls'[i].rejected
            /\ calls'[i].pf.elements = <<>>
            /\ isProcessing' = FALSE
       /\ ( /\ Entered(i)
            /\ \E j \in CallIds : calls[j].failed
            /\ \A j \in CallIds : ~Active(j)
            /\ ~GetImageDataThrows(video) ) =>
            /\ calls'[i].pc = "detecting"
            /\ ~calls'[i].skipped
            /\ calls'[i].frame = video.frame
    ]_vars

C9_Witness ==
  \E i, j \in CallIds : j < i /\ calls[j].failed /\ Active(i)

\* C10: processFrame never rejects and always resolves to an object with
\* an elements array, on the guard path, the extraction-failure path, the
\* detector-exception path and the success path.
C10_AlwaysResolves ==
  \A i \in CallIds :
    calls[i].pc = "returned" =>
      /\ ~calls[i].rejected
      /\ "elements" \in DOMAIN calls[i].pf
      /\ DOMAIN calls[i].pf.elements = 1..Len(calls[i].pf.elements)

C10_Witness ==
  \E i, j \in CallIds :
    /\ calls[i].pc = "returned" /\ calls[i].skipped
    /\ calls[j].pc = "returned" /\ ~calls[j].skipped /\ ~calls[j].failed
    /\ calls[j].frame.w = 8
    /\ calls[j].pf.elements = <<>>
    /\ calls[j].frame.pat.kind = "c"

\* C3: getAugment(key) returns null whenever it is called before loadData()
\* has resolved true; called after that, it returns a record of the loaded
\* file whose key field equals key, and null when the file has no such record.
C3_GetAugmentByKey ==
  (answer.mgr = "aug" /\ answer.query.op = "getAugment") =>
    IF answer.promise # "true" THEN answer.result = Null
    ELSE LET hits == {a \in Elements(augFile) : a.key = answer.query.key}
         IN IF hits = {} THEN answer.result = Null
            ELSE /\ answer.result.kind = "record"
                 /\ answer.result.value \in hits

\* A two-record file is loaded and the first record is fetched by its key.
C3_Witness ==
  /\ answer.mgr = "aug"
  /\ answer.query.op = "getAugment"
  /\ answer.promise = "true"
  /\ Len(augFile) = 2
  /\ augFile[1].key # augFile[2].key
  /\ answer.query.key = augFile[1].key
  /\ answer.result = RecordResult(augFile[1])

\* C4: after a successful load, searchAugments(q, limit) with a non-empty
\* lowercased, trimmed term t returns at most limit records of the file, each
\* with searchText containing t, the title matches before the others and
\* tierPriority non-increasing inside each of the two groups.
C4_SearchAugmentsOrdered ==
  (/\ answer.mgr = "aug"
   /\ answer.query.op = "searchAugments"
   /\ answer.promise = "true"
   /\ trim(toLowerCase(answer.query.text)) # <<>>) =>
    LET t == trim(toLowerCase(answer.query.text))
        r == answer.result.value
    IN /\ answer.result.kind = "list"
       /\ Len(r) <= answer.query.n
       /\ \A i \in 1..Len(r) :
            r[i] \in Elements(augFile) /\ includes(r[i].searchText, t)
       /\ \A i, j \in 1..Len(r) :
            i < j =>
              /\ TitleMatches(r[j], t) => TitleMatches(r[i], t)
              /\ (TitleMatches(r[i], t) = TitleMatches(r[j], t))
                   => r[i].tierPriority >= r[j].tierPriority

\* A search whose two results were reordered: the title match came second in
\* the file and is returned first.
C4_Witness ==
  /\ answer.mgr = "aug"
  /\ answer.query.op = "searchAugments"
  /\ answer.promise = "true"
  /\ answer.result.kind = "list"
  /\ Len(answer.result.value) = 2
  /\ Len(augFile) = 2
  /\ answer.result.value = <<augFile[2], augFile[1]>>
  /\ LET t == trim(toLowerCase(answer.query.text))
     IN TitleMatches(augFile[2], t) /\ ~TitleMatches(augFile[1], t)

\* C5: after a successful load, getTraitEffect(key, count) for a key of the
\* traits file returns null when count is below the smallest activation level
\* of the trait, and otherwise an effect whose activeLevel is the largest
\* activation level <= count and whose description is that level's.
C5_EffectOfHighestLevel ==
  (/\ answer.mgr = "traits"
   /\ answer.query.op = "getTraitEffect"
   /\ answer.promise = "true"
   /\ \E t \in Elements(traitFile) : t.key = answer.query.key) =>
    LET trait == CHOOSE t \in Elements(traitFile) : t.key = answer.query.key
        reached == {l \in Elements(trait.activationLevels) : l <= answer.query.n}
    IN IF reached = {} THEN answer.result = Null
       ELSE /\ answer.result.kind = "effect"
            /\ answer.result.activeLevel = MaxOf(reached)
            /\ answer.result.description = trait.descriptions[MaxOf(reached)]

\* The asset files of a manager were requested at most once each, and the
\* main file once as soon as loadData() was called.
FetchedOnce ==
  /\ augMgr.fetches <= 1
  /\ traitMgr.fetches <= 1
  /\ traitMgr.activationFetches <= 1
  /\ augMgr.loadPromise # "null" => augMgr.fetches = 1
  /\ traitMgr.loadPromise # "null" => traitMgr.fetches = 1

\* Every loadData() call that resolved did so with its manager's one outcome.
SameOutcome ==
  \A c \in LoadIds :
    Settled(loads[c].result) => loads[c].result = PromiseOf(loads[c].mgr)

\* C6: however many loadData() calls a manager gets, also while the first is
\* in flight, its asset file is fetched once, all calls resolve to the same
\* boolean, and once the load has resolved the lookup maps never change.
C6_LoadDataIdempotent ==
  [][/\ FetchedOnce /\ FetchedOnce'
     /\ SameOutcome /\ SameOutcome'
     /\ Settled(augMgr.loadPromise) =>
          /\ augMgr'.augmentMap = augMgr.augmentMap
          /\ augMgr'.loadPromise = augMgr.loadPromise
     /\ Settled(traitMgr.loadPromise) =>
          /\ traitMgr'.traitMap = traitMgr.traitMap
          /\ traitMgr'.activationMap = traitMgr.activationMap
          /\ traitMgr'.loadPromise = traitMgr.loadPromise]_vars

\* Two calls on the traits manager, the second made while the first was in
\* flight, both resolved true after one fetch of each file.
C6_Witness ==
  /\ loads[1].mgr = "traits" /\ loads[2].mgr = "traits"
  /\ loads[1].found = "null" /\ loads[2].found = "pending"
  /\ loads[1].result = "true" /\ loads[2].result = "true"
  /\ traitMgr.fetches = 1 /\ traitMgr.activationFetches = 1
  /\ DOMAIN traitMgr.traitMap # {}

\* A response with a non-200 status or an unparsable body was seen.
FetchFailed(m) ==
  \E i \in 1..Len(m.seen) : m.seen[i] \in {"notOk", "unparsable"}

EmptyAnswer(r) == r.kind = "null" \/ (r.kind = "list" /\ r.value = <<>>)

\* C8: for both managers, once a fetch of an asset file has failed (non-200
\* status or unparsable body) and loadData() has resolved, it resolved false,
\* isLoaded is false and every query made from then on returned null or an
\* empty list.
C8_FailedFetchLoadsNothing ==
  /\ (FetchFailed(augMgr) /\ Settled(augMgr.loadPromise)) =>
       /\ augMgr.loadPromise = "false"
       /\ ~augMgr.isLoaded
       /\ (answer.mgr = "aug" /\ Settled(answer.promise)) => EmptyAnswer(answer.result)
  /\ (FetchFailed(traitMgr) /\ Settled(traitMgr.loadPromise)) =>
       /\ traitMgr.loadPromise = "false"
       /\ ~traitMgr.isLoaded
       /\ (answer.mgr = "traits" /\ Settled(answer.promise)) => EmptyAnswer(answer.result)

(***************************************************************************)
(* The extension: message listener, timers and overlay.                    *)
(***************************************************************************)

\* The fields of the object sent back for getStatus.
StatusFields ==
  {"isActive", "hasVideo", "isOverlayVisible", "isTftStream", "cvReady",
   "detectedElements", "videoInfo"}

\* C11: every request the listener has handled got exactly one sendResponse
\* call: the status object for getStatus, an object with a boolean success
\* field for testOverlay and testCvProcessing, and { error: 'Unknown action' }
\* for any other action.
C11_OneResponsePerMessage ==
  message.action # "none" =>
    /\ Len(message.responses) = 1
    /\ LET r == message.responses[1]
       IN  CASE message.action = "getStatus" -> DOMAIN r = StatusFields
             [] message.action \in {"testOverlay", "testCvProcessing"} ->
                  "success" \in DOMAIN r /\ r.success \in BOOLEAN
             [] OTHER -> r = [error |-> "Unknown action"]

\* A testCvProcessing request answered after cleanup(), with no video left.
C11_Witness ==
  /\ message.action = "testCvProcessing"
  /\ ~isActive /\ timersCreated > 0
  /\ message.responses = << [success |-> FALSE, error |-> "No video available"] >>

\* Invocation i of processVideoFrame completes in this step.
Completes(i) == calls[i].pc = "returned" /\ calls'[i].pc = "done"

\* C12 as stated: detectedElements is written only while a callback of the
\* CV interval timer runs; no popup request, video change, status change or
\* cleanup writes it.
C12_WrittenOnlyByTimer ==
  [][/\ detectedElements' # detectedElements =>
          \E i \in CallIds : Completes(i) /\ calls[i].src = "timer"
     /\ \A i \in CallIds :
          (Completes(i) /\ HasElements(calls[i])) => calls[i].src = "timer"]_vars

\* C12 amended: detectedElements is written only when an invocation of
\* processVideoFrame, started by a timer callback or by a testCvProcessing
\* request, completes with a non-empty element list, and it then holds that
\* list; no other step changes it.
C12_WrittenOnlyByProcessVideoFrame ==
  [][detectedElements' # detectedElements =>
       \E i \in CallIds :
         /\ Completes(i)
         /\ calls[i].src \in {"timer", "popup"}
         /\ "elements" \in DOMAIN calls[i].pf
         /\ Len(calls[i].pf.elements) > 0
         /\ detectedElements' = calls[i].pf.elements]_vars

\* An invocation started by testCvProcessing is about to store its elements
\* while no timer invocation has stored any.
C12_Witness ==
  \E i \in CallIds :
    /\ calls[i].pc = "returned" /\ calls[i].src = "popup"
    /\ HasElements(calls[i])
    /\ detectedElements = <<>>

\* A callback of a CV interval timer runs in this step.
TimerCallback == \E i \in CallIds : Entered(i) /\ calls'[i].src = "timer"

\* C13: once cleanup() has run on an active extension (isActive is false
\* again), no callback of a CV interval timer runs any more, whatever videos
\* were detected, lost or replaced before.
C13_NoCallbackAfterCleanup ==
  [][~isActive => ~TimerCallback]_vars

\* C17: at most one CV interval timer is running; the timer started for an
\* earlier video is stopped once a later video has been detected.
C17_OneIntervalTimer ==
  Cardinality(intervals) <= 1

(***************************************************************************)
(* The detector's confidences and candidate windows.                       *)
(***************************************************************************)

\* The confidence threshold of each element type, as numerator and
\* denominator.
ThresholdOf(type) ==
  CASE type = "augment" -> <<7, 10>>
    [] type = "champion" -> <<6, 10>>
    [] type = "shop" -> <<1, 2>>
    [] OTHER -> <<200, 255>>

\* C14: every element the detector emitted has a confidence c with
\* threshold < c <= 1, the threshold being 0.7 for augment, 0.6 for
\* champion, 0.5 for shop and 200/255 for gold elements.
C14_ConfidenceAboveThreshold ==
  detStage = "detected" =>
    \A i \in 1..Len(detElements) :
      LET e == detElements[i]
          t == ThresholdOf(e.type)
      IN  /\ e.type \in {"augment", "champion", "shop", "gold"}
          /\ RatioGreater(e.confidence, t[1], t[2])
          /\ e.confidence.num <= e.confidence.den
          /\ e.confidence.den > 0

\* A detection that emitted a gold element of confidence below 1 next to an
\* element found by its edge ratio.
C14_Witness ==
  /\ detStage = "detected"
  /\ \E i \in 1..Len(detElements) :
       /\ detElements[i].type = "gold"
       /\ detElements[i].confidence.num < detElements[i].confidence.den
  /\ \E i \in 1..Len(detElements) : detElements[i].type # "gold"

\* C15: every candidate of findRectangularRegions has the width and height of
\* the window (minWidth, minHeight), lies at offsets from the search area's
\* corner that are multiples of 10, and ends strictly inside the search
\* area; a search area not wider or not higher than the window yields none.
C15_CandidatesInsideSearchArea ==
  detRegions.found =>
    LET sa == detProbe.area
        params == detProbe.params
    IN  /\ \A i \in 1..Len(detRegions.list) :
             LET r == detRegions.list[i]
             IN  /\ r.width = params.minWidth
                 /\ r.height = params.minHeight
                 /\ (r.x - sa.x) % 10 = 0 /\ r.x >= sa.x
                 /\ (r.y - sa.y) % 10 = 0 /\ r.y >= sa.y
                 /\ r.x + params.minWidth < sa.x + sa.width
                 /\ r.y + params.minHeight < sa.y + sa.height
        /\ (sa.width <= params.minWidth \/ sa.height <= params.minHeight) =>
             detRegions.list = <<>>

\* A scan from a corner that is no multiple of 10 returned candidates in
\* more than one column and more than one line of windows.
C15_Witness ==
  /\ detRegions.found
  /\ detProbe.area.x % 10 # 0
  /\ \E i, j \in 1..Len(detRegions.list) :
       /\ detRegions.list[i].x # detRegions.list[j].x
       /\ detRegions.list[i].y # detRegions.list[j].y

(***************************************************************************)
(* The processor keeps nothing from one frame to the next.                 *)
(***************************************************************************)

\* Invocation i passed the guard of processFrame, extracted a frame and ran
\* the detectors without an exception.
Detected(i) ==
  /\ calls[i].pc \in {"detecting", "returned"}
  /\ ~calls[i].skipped /\ ~calls[i].failed /\ ~calls[i].fault

C18_LoadedTraitsAreIndexed ==
  traitMgr.loadPromise = "true" =>
    /\ traitMgr.isLoaded
    /\ \A t \in Elements(traitMgr.traitsData.list) :
         getTrait(traitMgr, t.key) = RecordResult(t)
    /\ DOMAIN traitMgr.traitMap = {t.key : t \in Elements(traitMgr.traitsData.list)}

(***************************************************************************)
(* OverlayManager: visibility and the timeouts.                            *)
(***************************************************************************)

\* C19: whenever isVisible is true the container exists and its display
\* style is 'block'; the display:none timeout of an earlier hide() does not
\* undo a later show().
C19_VisibleIsDisplayed ==
  isVisible => (overlayContainer.exists /\ overlayContainer.display = "block")

\* An auto-hide timeout fires in this step and hides the overlay.
AutoHides ==
  /\ hideTimers # <<>>
  /\ hideTimers' = Tail(hideTimers)
  /\ isVisible /\ ~isVisible'

\* C20: the overlay is hidden by an auto-hide timeout only when 3 seconds
\* have passed since the most recent showTestOverlay() or
\* updateOverlayWithElements() call: the timeout of that most recent call has
\* no time left when the overlay is hidden.
C20_HiddenThreeSecondsAfterShow ==
  [][AutoHides => hideTimers[Len(hideTimers)] = 0]_vars

(***************************************************************************)
(* The reentrancy flag of processFrame.                                    *)
(***************************************************************************)

\* Invocation i resumes after its await and runs its finally block in this
\* step.
Resumes(i) == calls[i].pc = "detecting" /\ calls'[i].pc = "returned"

\* C21: a processFrame call rejected by the guard leaves isProcessing true
\* and lastProcessTime as it was; isProcessing goes back to false only in
\* the finally block of the invocation that set it, no other invocation
\* being past the guard at that time.
C21_FlagOwnedBySetter ==
  [][/\ \A i \in CallIds :
          (Entered(i) /\ calls'[i].skipped) =>
            /\ isProcessing /\ isProcessing'
            /\ lastProcessTime' = lastProcessTime
     /\ (isProcessing /\ ~isProcessing') =>
          \E i \in CallIds :
            /\ Resumes(i)
            /\ \A j \in CallIds \ {i} : ~Active(j)]_vars

\* The invocation that set the flag has reset it after another call was
\* rejected in between.
C21_Witness ==
  \E i, j \in CallIds :
    /\ calls[j].skipped
    /\ calls[i].pc = "returned" /\ ~calls[i].skipped /\ ~calls[i].failed
    /\ ~isProcessing

(***************************************************************************)
(* The reads of the grayscale buffer.                                      *)
(***************************************************************************)

\* grayData[idx] is a read inside the buffer.
InBuffer(fr, idx) == GrayAt(fr, idx) # Undefined

\* The corners (x, y) of the windows that a scan in steps of 10 visits in a
\* search area, for a window of the given size.
WindowCorners(sa, w, h) ==
  { c \in (sa.x..(sa.x + sa.width - w - 1)) \X (sa.y..(sa.y + sa.height - h - 1)) :
      (c[1] - sa.x) % 10 = 0 /\ (c[2] - sa.y) % 10 = 0 }

\* analyzeRegion on the window at (x, y): its three reads per pixel are
\* inside the buffer and it counted at least one pixel.
RegionReadsInside(fr, x, y, w, h) ==
  /\ \A rx \in AnalyzeCols(fr, x, w), ry \in AnalyzeLines(fr, y, h) :
       /\ InBuffer(fr, ry * fr.w + rx)
       /\ InBuffer(fr, ry * fr.w + rx + 1)
       /\ InBuffer(fr, (ry + 1) * fr.w + rx)
  /\ analyzeRegion(fr, x, y, w, h).den > 0

ScanReadsInside(fr, sa, params) ==
  \A c \in WindowCorners(sa, params.minWidth, params.minHeight) :
    RegionReadsInside(fr, c[1], c[2], params.minWidth, params.minHeight)

\* analyzeShopPattern: its two reads per sample are inside the buffer and
\* the ratio it compares has a divisor that is not zero.
ShopReadsInside(fr, area) ==
  /\ \A x \in ShopCols(fr, area), y \in ShopLines(fr, area) :
       /\ InBuffer(fr, y * fr.w + x)
       /\ InBuffer(fr, y * fr.w + x + 1)
  /\ analyzeShopPattern(fr, area).den > 0

\* findBrightRegions: every pixel of every 20 x 20 block it sums is inside
\* the buffer, and a block whose mean is compared has pixels.
BrightReadsInside(fr, area) ==
  \A c \in WindowCorners(area, 20, 20) :
    /\ \A rx \in c[1]..(c[1] + 19), ry \in c[2]..(c[2] + 19) :
         (rx < fr.w /\ ry < fr.h) => InBuffer(fr, ry * fr.w + rx)
    /\ BrightPixels(fr, c[1], c[2]) > 0

\* C22: for the frame the detectors ran on, every read of the grayscale
\* buffer made by analyzeRegion, analyzeShopPattern and findBrightRegions in
\* the search areas of the four detectors has an index in 0 .. width*height-1,
\* and no statistic compared with a threshold was divided by zero.
C22_ReadsInsideBuffer ==
  detStage = "detected" =>
    /\ ScanReadsInside(detFrame, AugmentArea(detFrame), AugmentParams)
    /\ ScanReadsInside(detFrame, ChampionArea(detFrame), ChampionParams)
    /\ ShopReadsInside(detFrame, ShopArea(detFrame))
    /\ BrightReadsInside(detFrame, GoldAreas(detFrame)[1])
    /\ BrightReadsInside(detFrame, GoldAreas(detFrame)[2])

\* A detection on a frame in which all three heuristics read pixels.
C22_Witness ==
  /\ detStage = "detected"
  /\ WindowCorners(AugmentArea(detFrame), 80, 80) # {}
  /\ WindowCorners(ChampionArea(detFrame), 50, 50) # {}
  /\ WindowCorners(GoldAreas(detFrame)[2], 20, 20) # {}
  /\ ShopCols(detFrame, ShopArea(detFrame)) # {}
  /\ ShopLines(detFrame, ShopArea(detFrame)) # {}

(***************************************************************************)
(* The comparator of searchTraits.                                         *)
(***************************************************************************)

\* cmp(a, b) and cmp(b, a) have opposite signs or are both 0.
OppositeSigns(ab, ba) ==
  \/ ab < 0 /\ ba > 0
  \/ ab > 0 /\ ba < 0
  \/ ab = 0 /\ ba = 0

\* C23: for the search term of a searchTraits call on loaded data and any
\* two traits that the call sorts, the comparator gives cmp(a, b) and
\* cmp(b, a) opposite signs or 0 both, and puts a class trait before a trait
\* of another type whose name matches the term equally.
C23_ComparatorConsistent ==
  (/\ answer.mgr = "traits"
   /\ answer.query.op = "searchTraits"
   /\ traitMgr.isLoaded) =>
    LET searchTerm == trim(toLowerCase(answer.query.text))
        matches == {t \in Elements(traitMgr.traitsData.list) :
                      searchTerm # <<>> /\ includes(t.searchText, searchTerm)}
        NameMatch(t) == includes(toLowerCase(t.name), searchTerm)
    IN  \A a, b \in matches :
          /\ OppositeSigns(CompareTraits(a, b, searchTerm),
                           CompareTraits(b, a, searchTerm))
          /\ (NameMatch(a) = NameMatch(b) /\ a.type = "class" /\ b.type # "class") =>
               CompareTraits(a, b, searchTerm) < 0

C25_NotifiedOnlyAfterChange ==
  [][(lastTftStatus' # lastTftStatus) =>
       (evaluated = << >> \/ evaluated[1] # streamIsTft)]_vars

(***************************************************************************)
(* A VideoDetector alone, its methods called in any order by its owner and *)
(* its timers and observer run by the page; the callback it is given only  *)
(* records its arguments.                                                  *)
(***************************************************************************)
MonitorRest ==
  /\ UNCHANGED <<cvVars, detVars, dataVars>>
  /\ UNCHANGED <<isActive, streamIsTft, cvProcessingInterval, intervals,
                 timersCreated, message>>

\* A call of startMonitoring(callback).
StartMonitoring(found) ==
  /\ Len(startCalls) < MaxStarts
  /\ startCalls' = Append(startCalls, ~isMonitoring)
  /\ startMonitoring(Len(startCalls) + 1, found)
  /\ UNCHANGED <<lastTftStatus, evaluated>>
  /\ MonitorRest

\* A call of stopMonitoring().
StopMonitoring ==
  /\ stopMonitoring
  /\ UNCHANGED <<retryCount, startCalls, notifications, lastTftStatus, evaluated>>
  /\ MonitorRest

\* The polling interval h runs its callback ("poll"), or the
\* MutationObserver h sees a video element added to the page ("dom").
DetectFires(kind, h, found) ==
  /\ Watcher(kind, h) \in watchers
  /\ detectVideo(found)
  /\ UNCHANGED <<isMonitoring, monitoringInterval, domObserver,
                 tftCheckInterval, watchers, startCalls, lastTftStatus, evaluated>>
  /\ MonitorRest

\* The TFT-status interval h runs its callback.
TftCheckFires(h) ==
  /\ Watcher("tft", h) \in watchers
  /\ checkTftStreamStatus
  /\ UNCHANGED <<isMonitoring, currentVideo, retryCount, monitoringInterval,
                 domObserver, tftCheckInterval, watchers, startCalls,
                 notifications>>
  /\ MonitorRest

NextMonitor ==
  \/ \E found \in {0} \cup VideoIds : StartMonitoring(found)
  \/ StopMonitoring
  \/ \E kind \in {"poll", "dom"}, h \in 1..MaxStarts, found \in {0} \cup VideoIds :
       DetectFires(kind, h, found)
  \/ \E h \in 1..MaxStarts : TftCheckFires(h)
  \/ TitleChanges

SpecMonitor == Init /\ [][NextMonitor]_vars

(***************************************************************************)
(* C26: once stopMonitoring() has returned, neither the polling interval,  *)
(* nor the MutationObserver, nor the TFT-status interval calls the         *)
(* callback before the next startMonitoring, and currentVideo is null; a   *)
(* startMonitoring call while isMonitoring is true makes no further        *)
(* interval or observer.                                                   *)
(***************************************************************************)
C26_StoppedMeansSilent ==
  [][/\ ~isMonitoring' => (watchers' = {} /\ currentVideo' = 0)
     /\ (~isMonitoring /\ ~isMonitoring') =>
          (notifications' = notifications /\ lastTftStatus' = lastTftStatus)
     /\ isMonitoring => watchers' \subseteq watchers]_vars

\* Monitoring was started, started again while on, has called back from
\* detectVideo and from the status check, and was stopped.
C26_Witness ==
  /\ ~isMonitoring
  /\ startCalls = << TRUE, FALSE >>
  /\ notifications # << >>
  /\ lastTftStatus

\* What getActivationProgress is to return for a trait and a count.
ProgressAsClaimed(trait, count, result) ==
  LET levels == Elements(trait.activationLevels)
      later == {l \in levels : l > count}
      reached == {l \in levels : l <= count}
  IN /\ result.kind = "progress"
     /\ result.isMaxed = (later = {})
     /\ result.isMaxed => result.progress = Ratio(1, 1)
     /\ ~result.isMaxed =>
          /\ \A l \in later : result.next <= l
          /\ result.next \in later
          /\ result.previous = (IF reached = {} THEN 0 ELSE MaxOf(reached))
          /\ result.needed = result.next - count
          /\ result.needed >= 1
          /\ result.progress.den > 0
          /\ 0 <= result.progress.num
          /\ result.progress.num < result.progress.den

\* The traits whose activationLevels are non-empty and ascending.
Ascending(levels) ==
  /\ levels # <<>>
  /\ \A i, j \in 1..Len(levels) : i < j => levels[i] < levels[j]

\* After a load, getActivationProgress answers as C27 has it for every trait
\* that getTrait finds.
ProgressOfIndexedTrait ==
  (/\ answer.mgr = "traits"
   /\ answer.query.op = "getActivationProgress"
   /\ answer.promise = "true"
   /\ getTrait(traitMgr, answer.query.key) # Null) =>
    ProgressAsClaimed(getTrait(traitMgr, answer.query.key).value,
                      answer.query.n, answer.result)

\* C27: for a trait of the loaded traits file, with non-empty ascending
\* activationLevels, and a count >= 0, getActivationProgress(key, count)
\* returns isMaxed = true and progress 1 exactly when no level is above count;
\* otherwise next is the smallest level > count, previous the largest level
\* <= count (0 if none), needed = next - count >= 1 and 0 <= progress < 1.
C27_ProgressOfLoadedTrait ==
  (/\ answer.mgr = "traits"
   /\ answer.query.op = "getActivationProgress"
   /\ answer.promise = "true"
   /\ \E t \in Elements(traitFile) : t.key = answer.query.key) =>
    LET trait == CHOOSE t \in Elements(traitFile) : t.key = answer.query.key
    IN Ascending(trait.activationLevels) =>
         ProgressAsClaimed(trait, answer.query.n, answer.result)

(***************************************************************************)
(* TemplateMatcher.nonMaximumSuppression on arrays of at most MaxMatches   *)
(* matches.  A match is its rectangle and its confidence in percent.       *)
(***************************************************************************)
MaxMatches == 3

\* CONFIG.CV.NMS_OVERLAP_THRESHOLD: 0.3
NMS_OVERLAP_THRESHOLD == Ratio(3, 10)

Match(x, y, width, height, confidence) ==
  [x |-> x, y |-> y, width |-> width, height |-> height, confidence |-> confidence]

\* Rectangles that overlap their neighbours by a third, a seventh or not at
\* all, and two that overlap by exactly three tenths.
MatchCandidates ==
  {Match(x, 0, 4, 2, c) : x \in {0, 2, 3, 4}, c \in {75, 90}}
    \cup {Match(x, 0, 13, 1, c) : x \in {0, 7}, c \in {80, 90}}

MatchLists == ListsOver(MatchCandidates, MaxMatches)

Min2(a, b) == IF a < b THEN a ELSE b

Max2(a, b) == IF a > b THEN a ELSE b

\* TemplateMatcher.calculateOverlap(rect1, rect2), as the exact quotient.
calculateOverlap(rect1, rect2) ==
  LET x1 == Max2(rect1.x, rect2.x)
      y1 == Max2(rect1.y, rect2.y)
      x2 == Min2(rect1.x + rect1.width, rect2.x + rect2.width)
      y2 == Min2(rect1.y + rect1.height, rect2.y + rect2.height)
      intersectionArea == (x2 - x1) * (y2 - y1)
      rect1Area == rect1.width * rect1.height
      rect2Area == rect2.width * rect2.height
      unionArea == rect1Area + rect2Area - intersectionArea
  IN IF x2 <= x1 \/ y2 <= y1 THEN Ratio(0, 1)
     ELSE Ratio(intersectionArea, unionArea)

\* overlap > CONFIG.CV.NMS_OVERLAP_THRESHOLD
OverThreshold(overlap) ==
  RatioGreater(overlap, NMS_OVERLAP_THRESHOLD.num, NMS_OVERLAP_THRESHOLD.den)

\* matches.sort((a, b) => b.confidence - a.confidence): Array.prototype.sort
\* is stable.
RECURSIVE InsertMatch(_, _)
InsertMatch(m, sorted) ==
  IF sorted = <<>> THEN << m >>
  ELSE IF Head(sorted).confidence - m.confidence < 0 THEN << m >> \o sorted
  ELSE << Head(sorted) >> \o InsertMatch(m, Tail(sorted))

RECURSIVE SortMatches(_)
SortMatches(list) ==
  IF list = <<>> THEN <<>>
  ELSE LET n == Len(list)
       IN InsertMatch(list[n], SortMatches(SubSeq(list, 1, n - 1)))

\* The loop over the sorted matches: a match is kept unless it overlaps a
\* selected one by more than the threshold.
RECURSIVE SelectMatches(_, _)
SelectMatches(sorted, filtered) ==
  IF sorted = <<>> THEN filtered
  ELSE LET match == Head(sorted)
           shouldKeep ==
             \A i \in 1..Len(filtered) :
               ~OverThreshold(calculateOverlap(match, filtered[i]))
       IN SelectMatches(Tail(sorted),
                        IF shouldKeep THEN Append(filtered, match) ELSE filtered)

\* A nonMaximumSuppression that does not sort.
nonMaximumSuppressionUnsorted(list) ==
  IF Len(list) <= 1 THEN [sorted |-> list, returned |-> list]
  ELSE [sorted |-> list, returned |-> SelectMatches(list, <<>>)]

\* TemplateMatcher.nonMaximumSuppression(matches): the array it returns and
\* the argument array, which it sorts in place.
nonMaximumSuppression(list) ==
  IF Len(list) <= 1 THEN [sorted |-> list, returned |-> list]
  ELSE [sorted |-> SortMatches(list),
        returned |-> SelectMatches(SortMatches(list), <<>>)]

Suppress ==
  /\ nmsStage = "input"
  /\ nmsStage' = "done"
  /\ nmsMatches' = nonMaximumSuppression(nmsMatches).sorted
  /\ filteredMatches' = nonMaximumSuppression(nmsMatches).returned
  /\ UNCHANGED <<nmsInput, detFrame, detElements, detStage, detProbe, detRegions>>
  /\ UNCHANGED <<cvVars, dataVars, extVars>>

InitNms ==
  /\ CvInit /\ video = VideoPicture(<<0, 0>>, NoPattern, FALSE)
  /\ detFrame = NullFrameData
  /\ detElements = <<>>
  /\ detStage = "off"
  /\ detProbe = NoProbe
  /\ detRegions = NoRegions
  /\ nmsInput \in MatchLists
  /\ nmsMatches = nmsInput
  /\ filteredMatches = <<>>
  /\ nmsStage = "input"
  /\ DataOff
  /\ ExtOff

NextNms == Suppress

SpecNms == InitNms /\ [][NextNms]_vars

\* The unit squares a rectangle covers.
Cells(r) ==
  {<<i, j>> \in (r.x..(r.x + r.width - 1)) \X (r.y..(r.y + r.height - 1)) : TRUE}

\* Intersection over union of two rectangles above three tenths.
IoUAboveThreshold(a, b) ==
  10 * Cardinality(Cells(a) \cap Cells(b)) > 3 * Cardinality(Cells(a) \cup Cells(b))

\* How often a match is in an array.
Count(list, m) == Cardinality({i \in 1..Len(list) : list[i] = m})

(***************************************************************************)
(* C28: nonMaximumSuppression returns matches of its input, in order of    *)
(* non-increasing confidence, no two of them with an intersection over     *)
(* union above NMS_OVERLAP_THRESHOLD (0.3); every match it drops has an    *)
(* intersection over union above 0.3 with a returned match whose           *)
(* confidence is at least its own.                                         *)
(***************************************************************************)
C28_SuppressionKeepsBest ==
  nmsStage = "done" =>
    /\ \A m \in Elements(filteredMatches) :
         Count(filteredMatches, m) <= Count(nmsInput, m)
    /\ \A i, j \in 1..Len(filteredMatches) :
         i < j =>
           /\ filteredMatches[i].confidence >= filteredMatches[j].confidence
           /\ ~IoUAboveThreshold(filteredMatches[i], filteredMatches[j])
    /\ \A m \in Elements(nmsInput) :
         Count(filteredMatches, m) < Count(nmsInput, m) =>
           \E k \in Elements(filteredMatches) :
             /\ IoUAboveThreshold(m, k)
             /\ k.confidence >= m.confidence

\* Three matches not in order of confidence, one of them dropped; and two
\* returned matches that overlap by exactly the threshold.
C28_Witness ==
  /\ nmsStage = "done"
  /\ Len(nmsInput) = 3
  /\ Len(filteredMatches) = 2
  /\ nmsInput[1].confidence < nmsInput[2].confidence
  /\ LET overlap == calculateOverlap(filteredMatches[1], filteredMatches[2])
     IN overlap.num * NMS_OVERLAP_THRESHOLD.den = NMS_OVERLAP_THRESHOLD.num * overlap.den

====
